---- MODULE Spec2Model ----
(***************************************************************************)
(* Values Check Tool (Hume_ValuesCheckingScript_V3.py): the run() pipeline *)
(* of ValuesCheckTool as a state machine.                                  *)
(*                                                                         *)
(* Text is a sequence of one-character strings, so that cleaning,          *)
(* formatting and sorting are computed character by character as the       *)
(* Python code computes them.  Names used as dictionary keys (theme names, *)
(* feature class names, locations) are TLA+ strings.                       *)
(*                                                                         *)
(* The arcpy geoprocessing engine is external: every arcpy call either     *)
(* succeeds or raises, and cursors yield records chosen from bounded sets. *)
(***************************************************************************)
EXTENDS Integers, Sequences, FiniteSets, TLC

VARIABLES
    config,        \* what __main__ finds: which inputs exist, and whether the
                   \* input dataset has the field FEATURE_ID
    reftable,      \* rows the SearchCursor over the reference table yields
    works,         \* FEATURE_ID values the SearchCursor over the input fc yields
    pc,            \* position of run()
    idx,           \* position of the loop of the current step (row / feature / theme)
    loc,           \* location_type of the running _process_spatial_intersection
    layer_name,    \* the local variable layer_name of load_values_fcs
    values_cache,  \* self.values_cache : fc_name -> layer name
    buffer_cache,  \* self.buffer_cache : keys, 0 is the unbuffered base layer
    reftab_dict,   \* self.reftab_dict  : insertion-ordered, one entry per fc_name
    output_dict,   \* self.output_dict  : feature -> theme -> location -> rows
    output_ids,    \* insertion order of the keys of self.output_dict
    progress,      \* self.progress
    csv,           \* rows written through self.writer
    csv_open,      \* self.output_csv is open
    perf_log,      \* error messages passed to logMessage, oldest first
    raised,        \* an exception has propagated out of run() or of __main__
    calls,         \* geoprocessing calls and engine invocations made so far
    joined,        \* per (fc_name, location, feature): what the join cursor has
                   \* yielded: number of records, sums of area and length, the
                   \* raw reporting-field tuples, the records in cursor order
    call_status,   \* per (fc_name, location): "none", "running", "ok", "empty", "failed"
    budget,        \* what the environment may still do in this run: joined
                   \* records the cursors may yield, calls that may raise
    counter,       \* V2008 self.counter
    theme_pos,     \* V2008 process_feature: position of the cursor over the reference table
    output_file,   \* V2008 run(): the text written to output_file after the header
    selection,     \* V2008: per value layer, the features that are selected
    checks,        \* V2008: the calls of a check function in the latest iteration of
                   \* the theme loop, each with the selection of the layer at the call
    trunc_attrs    \* V2008 get_values_areas: the list attrs of the truncation loop

vars == <<config, reftable, works, pc, idx, loc, layer_name, values_cache, buffer_cache,
          reftab_dict, output_dict, output_ids, progress, csv, csv_open,
          perf_log, raised, calls, joined, call_status, budget,
          counter, theme_pos, output_file, selection, checks, trunc_attrs>>

\* the variables of the per-feature pipeline of V2008, which a run of V3 leaves alone
pipeline == <<counter, theme_pos, output_file, selection, checks, trunc_attrs>>

-----------------------------------------------------------------------------
(* Bounds of the model *)

\* rows of the reference table
MaxRows == 2

\* joined records one run of the whole pipeline may yield
MaxRunRecs == 2

\* geoprocessing calls that may raise in one run of the whole pipeline
MaxFaults == 2

\* joined records one run may yield when the engine is studied on one theme
MaxRecs == 3

-----------------------------------------------------------------------------
(* Program constants *)

MAX_STRING_LEN == 50

FEATURE_ID == "DAP_REF_NO"

\* value of the distinguished None of Python
None == [kind |-> "none", s |-> <<>>, n |-> 0]

-----------------------------------------------------------------------------
(* Text helpers: Python str operations on sequences of characters *)

RECURSIVE Concat(_)
\* ''.join(list of texts)
Concat(ss) == IF ss = <<>> THEN <<>> ELSE Head(ss) \o Concat(Tail(ss))

RECURSIVE Join(_, _)
\* sep.join(list of texts)
Join(sep, ss) ==
    IF ss = <<>> THEN <<>>
    ELSE IF Len(ss) = 1 THEN ss[1]
    ELSE ss[1] \o sep \o Join(sep, Tail(ss))

\* characters in code point order (the part of ASCII the model uses)
CodeOrder == <<"\n", "\r", " ", "'", "(", ")", ",", "-", ".",
               "0", "1", "2", "3", "4", "5", "6", "7", "8", "9", ":", ";",
               "A", "B", "C", "D", "E", "F", "G", "H", "I", "J", "K", "L", "M",
               "N", "O", "P", "Q", "R", "S", "T", "U", "V", "W", "X", "Y", "Z",
               "_",
               "a", "b", "c", "d", "e", "f", "g", "h", "i", "j", "k", "l", "m",
               "n", "o", "p", "q", "r", "s", "t", "u", "v", "w", "x", "y", "z",
               "|">>

Ord(c) == CHOOSE i \in 1..Len(CodeOrder) : CodeOrder[i] = c

UpperLetters == <<"A", "B", "C", "D", "E", "F", "G", "H", "I", "J", "K", "L", "M",
                  "N", "O", "P", "Q", "R", "S", "T", "U", "V", "W", "X", "Y", "Z">>

LowerLetters == <<"a", "b", "c", "d", "e", "f", "g", "h", "i", "j", "k", "l", "m",
                  "n", "o", "p", "q", "r", "s", "t", "u", "v", "w", "x", "y", "z">>

LowerChar(c) ==
    IF \E i \in 1..26 : UpperLetters[i] = c
    THEN LowerLetters[CHOOSE i \in 1..26 : UpperLetters[i] = c]
    ELSE c

\* str.lower()
Lower(s) == [i \in 1..Len(s) |-> LowerChar(s[i])]

IsSpace(c) == c \in {" ", "\n", "\r"}

RECURSIVE LStrip(_)
LStrip(s) == IF s # <<>> /\ IsSpace(Head(s)) THEN LStrip(Tail(s)) ELSE s

RECURSIVE RStrip(_)
RStrip(s) ==
    IF s # <<>> /\ IsSpace(s[Len(s)]) THEN RStrip(SubSeq(s, 1, Len(s) - 1)) ELSE s

\* str.strip()
Strip(s) == RStrip(LStrip(s))

RECURSIVE Replace(_, _, _)
\* str.replace(old, new) for a one-character old
Replace(s, old, new) ==
    IF s = <<>> THEN <<>>
    ELSE (IF Head(s) = old THEN new ELSE <<Head(s)>>) \o Replace(Tail(s), old, new)

RECURSIVE TextLess(_, _)
\* a < b for Python strings: lexicographic by code point
TextLess(a, b) ==
    IF b = <<>> THEN FALSE
    ELSE IF a = <<>> THEN TRUE
    ELSE IF Head(a) = Head(b) THEN TextLess(Tail(a), Tail(b))
    ELSE Ord(Head(a)) < Ord(Head(b))

RECURSIVE InsertSorted(_, _)
InsertSorted(x, ss) ==
    IF ss = <<>> THEN <<x>>
    ELSE IF TextLess(x, Head(ss)) THEN <<x>> \o ss
    ELSE <<Head(ss)>> \o InsertSorted(x, Tail(ss))

\* the list left in append order
SortTextsNone(ss) == ss

RECURSIVE SortTexts(_)
\* list.sort() on a list of str
SortTexts(ss) ==
    IF ss = <<>> THEN <<>>
    ELSE InsertSorted(ss[Len(ss)], SortTexts(SubSeq(ss, 1, Len(ss) - 1)))

Digit(d) == <<"0", "1", "2", "3", "4", "5", "6", "7", "8", "9">>[d + 1]

RECURSIVE StrNat(_)
\* str(n) for an int n >= 0
StrNat(n) == IF n < 10 THEN <<Digit(n)>> ELSE StrNat(n \div 10) \o <<Digit(n % 10)>>

\* zero padded to two digits, as %m and %d of strftime
Pad2(n) == IF n < 10 THEN <<"0">> \o StrNat(n) ELSE StrNat(n)

-----------------------------------------------------------------------------
(* Text literals *)

T_PRESENT == <<"P", "R", "E", "S", "E", "N", "T">>
T_COUNT   == <<"C", "O", "U", "N", "T">>
T_MEASURE == <<"M", "E", "A", "S", "U", "R", "E">>
T_Nil     == <<"N", "i", "l">>
T_CRLF    == <<"\r", "\n">>
T_InPolygon == <<"I", "n", " ", "p", "o", "l", "y", "g", "o", "n", ":">>

UpperChar(c) ==
    IF \E i \in 1..26 : LowerLetters[i] = c
    THEN UpperLetters[CHOOSE i \in 1..26 : LowerLetters[i] = c]
    ELSE c

\* str.upper()
Upper(s) == [i \in 1..Len(s) |-> UpperChar(s[i])]

\* a Python str value / int value, in the shape of None
PyStr(t) == [kind |-> "str", s |-> t, n |-> 0]
PyInt(k) == [kind |-> "int", s |-> <<>>, n |-> k]
\* a datetime value, n = year * 10000 + month * 100 + day
PyDate(k) == [kind |-> "date", s |-> <<>>, n |-> k]

-----------------------------------------------------------------------------
(* Cleaning of one reporting field, _process_spatial_intersection 348-366 *)

\* field_value.strftime('%Y-%m-%d')
Strftime(v) ==
    StrNat(v.n \div 10000) \o <<"-">> \o Pad2((v.n \div 100) % 100) \o <<"-">> \o Pad2(v.n % 100)

\* str(field_value)
Str(v) ==
    CASE v.kind = "none" -> <<"N", "o", "n", "e">>
      [] v.kind = "int"  -> StrNat(v.n)
      [] OTHER           -> v.s

NoValueTexts == { <<"n", "o", "n", "e">>, <<"n", "u", "l", "l">>, <<"n", "a", "n">>, <<>> }

\* CleanField without the replacement of the comma
CleanFieldKeepComma(v) ==
    LET str_val0 == IF v.kind = "date" THEN Strftime(v) ELSE Strip(Str(v))
        str_val  == Replace(Replace(str_val0, "'", <<>>), "\n", <<"_", "n">>)
    IN  IF str_val # <<>> /\ Lower(str_val) \notin NoValueTexts
        THEN IF Len(str_val) > MAX_STRING_LEN
             THEN << SubSeq(str_val, 1, MAX_STRING_LEN - 3) \o <<".", ".", ".">> >>
             ELSE << str_val >>
        ELSE <<>>

\* the text appended to field_values for one field value: a list of 0 or 1 texts
CleanField(v) ==
    LET str_val0 == IF v.kind = "date" THEN Strftime(v) ELSE Strip(Str(v))
        str_val  == Replace(Replace(Replace(str_val0, "'", <<>>), ",", <<";">>),
                            "\n", <<"_", "n">>)
    IN  IF str_val # <<>> /\ Lower(str_val) \notin NoValueTexts
        THEN IF Len(str_val) > MAX_STRING_LEN
             THEN << SubSeq(str_val, 1, MAX_STRING_LEN - 3) \o <<".", ".", ".">> >>
             ELSE << str_val >>
        ELSE <<>>

RECURSIVE CleanFields(_)
\* field_values of one joined record: the cleaned values of row[2:], absent ones dropped
CleanFields(fields) ==
    IF fields = <<>> THEN <<>>
    ELSE CleanField(Head(fields)) \o CleanFields(Tail(fields))

-----------------------------------------------------------------------------
(* Aggregation of one joined record, _process_spatial_intersection 369-408 *)

\* MeasureOf without the conversion of square metres to hectares
MeasureOfSquareMetres(geometry_type, shape) ==
    CASE geometry_type = "POLYGON"  -> [bound |-> TRUE, m |-> shape.area * 100]
      [] geometry_type = "POLYLINE" -> [bound |-> TRUE, m |-> (shape.length * 100) \div 1000]
      [] OTHER                      -> [bound |-> FALSE, m |-> 0]

\* a measure is kept in hundredths of its unit (ha or km); the shapes of the
\* model have areas that are multiples of 2500 m2 and lengths that are
\* multiples of 250 m, for which the float arithmetic of the code is exact
MeasureOf(geometry_type, shape) ==
    CASE geometry_type = "POLYGON"  -> [bound |-> TRUE, m |-> (shape.area * 100) \div 10000]
      [] geometry_type = "POLYLINE" -> [bound |-> TRUE, m |-> (shape.length * 100) \div 1000]
      [] OTHER                      -> [bound |-> FALSE, m |-> 0]

\* existing_entry[:-1]
Key(entry) == SubSeq(entry, 1, Len(entry) - 1)

\* index of the first row of the bucket whose key is field_values, 0 if none
FindEntry(bucket, field_values) ==
    IF \E i \in 1..Len(bucket) : Key(bucket[i]) = field_values
    THEN CHOOSE i \in 1..Len(bucket) :
            /\ Key(bucket[i]) = field_values
            /\ \A j \in 1..(i - 1) : Key(bucket[j]) # field_values
    ELSE 0

\* AddPresent without the membership test of line 371
AddPresentAlways(bucket, field_values) == Append(bucket, field_values)

\* PRESENT: append field_values unless the bucket already holds them
AddPresent(bucket, field_values) ==
    IF \A i \in 1..Len(bucket) : bucket[i] # field_values
    THEN Append(bucket, field_values)
    ELSE bucket

\* Accumulate that assigns the amount to the matching row instead of adding it
AccumulateOverwrite(bucket, field_values, amount) ==
    LET i == FindEntry(bucket, field_values)
    IN  IF i # 0
        THEN [bucket EXCEPT ![i] = [@ EXCEPT ![Len(@)] = amount]]
        ELSE Append(bucket, Append(field_values, amount))

\* Accumulate that never finds the matching row
AccumulateAppend(bucket, field_values, amount) ==
    Append(bucket, Append(field_values, amount))

\* COUNT and MEASURE: add amount to the accumulator of the matching row, or
\* append a new row [field_values..., amount]
Accumulate(bucket, field_values, amount) ==
    LET i == FindEntry(bucket, field_values)
    IN  IF i # 0
        THEN [bucket EXCEPT ![i] = [@ EXCEPT ![Len(@)] = @ + amount]]
        ELSE Append(bucket, Append(field_values, amount))

\* ProcessRow that creates the entry of a feature id output_dict does not hold
\* (a setdefault in place of the plain subscript of lines 371, 377 and 398)
ProcessRowSetDefault(od, method, geometry_type, theme_name, location_type, rec) ==
    LET field_values == CleanFields(rec.fields)
        m      == Upper(method)
        od1    == IF rec.id \in DOMAIN od THEN od
                  ELSE [x \in DOMAIN od \cup {rec.id} |->
                           IF x = rec.id
                           THEN [t \in {theme_name} |->
                                    [in_polygon |-> <<>>, in_buffer |-> <<>>]]
                           ELSE od[x]]
        bucket == od1[rec.id][theme_name][location_type]
        put(b) == [err |-> FALSE,
                   od  |-> [od1 EXCEPT ![rec.id][theme_name][location_type] = b]]
        meas   == MeasureOf(geometry_type, rec.shape)
    IN  CASE m = T_PRESENT -> put(AddPresent(bucket, field_values))
          [] m = T_COUNT   -> put(Accumulate(bucket, field_values, 1))
          [] m = T_MEASURE ->
               IF meas.bound THEN put(Accumulate(bucket, field_values, meas.m))
               ELSE [err |-> TRUE, od |-> od]
          [] OTHER -> [err |-> FALSE, od |-> od]

\* ProcessRow that stores the bucket under both locations of the theme
ProcessRowBothLocations(od, method, geometry_type, theme_name, location_type, rec) ==
    LET field_values == CleanFields(rec.fields)
        m      == Upper(method)
        known  == rec.id \in DOMAIN od /\ theme_name \in DOMAIN od[rec.id]
        bucket == od[rec.id][theme_name][location_type]
        put(b) == [err |-> FALSE,
                   od  |-> [od EXCEPT ![rec.id][theme_name] =
                                         [in_polygon |-> b, in_buffer |-> b]]]
        fail   == [err |-> TRUE, od |-> od]
        meas   == MeasureOf(geometry_type, rec.shape)
    IN  CASE m = T_PRESENT ->
               IF known THEN put(AddPresent(bucket, field_values)) ELSE fail
          [] m = T_COUNT ->
               IF known THEN put(Accumulate(bucket, field_values, 1)) ELSE fail
          [] m = T_MEASURE ->
               IF known /\ meas.bound
               THEN put(Accumulate(bucket, field_values, meas.m))
               ELSE fail
          [] OTHER -> [err |-> FALSE, od |-> od]

\* one iteration of the cursor loop for the record rec of the join of theme
\* theme_name: the new output_dict, or err when the iteration raises
ProcessRow(od, method, geometry_type, theme_name, location_type, rec) ==
    LET field_values == CleanFields(rec.fields)
        m      == Upper(method)
        known  == rec.id \in DOMAIN od /\ theme_name \in DOMAIN od[rec.id]
        bucket == od[rec.id][theme_name][location_type]
        put(b) == [err |-> FALSE,
                   od  |-> [od EXCEPT ![rec.id][theme_name][location_type] = b]]
        fail   == [err |-> TRUE, od |-> od]
        meas   == MeasureOf(geometry_type, rec.shape)
    IN  CASE m = T_PRESENT ->
               IF known THEN put(AddPresent(bucket, field_values)) ELSE fail
          [] m = T_COUNT ->
               IF known THEN put(Accumulate(bucket, field_values, 1)) ELSE fail
          [] m = T_MEASURE ->
               IF known /\ meas.bound
               THEN put(Accumulate(bucket, field_values, meas.m))
               ELSE fail
          [] OTHER -> [err |-> FALSE, od |-> od]

-----------------------------------------------------------------------------
(* _results_to_string, 150-241 *)

\* f"{measure:.1f}" for a measure in hundredths: round half to even on the
\* exact value, which is what Python does for the exactly representable
\* measures of the model
FormatOneDecimal(h) ==
    LET q == h \div 10
        r == h % 10
        t == IF r > 5 \/ (r = 5 /\ q % 2 = 1) THEN q + 1 ELSE q
    IN  StrNat(t \div 10) \o <<".">> \o <<Digit(t % 10)>>

\* str(measure) for a float measure in hundredths: shortest repr, at least
\* one decimal
StrFloat(h) ==
    StrNat(h \div 100) \o <<".">> \o
    (IF h % 10 = 0 THEN <<Digit((h % 100) \div 10)>>
     ELSE <<Digit((h % 100) \div 10), Digit(h % 10)>>)

\* any(value) for one row of a bucket of a theme of method m (upper case):
\* attribute texts are truthy when non-empty, the accumulator when non-zero
AnyValue(value, m) ==
    IF m = T_PRESENT
    THEN \E i \in 1..Len(value) : value[i] # <<>>
    ELSE \/ \E i \in 1..(Len(value) - 1) : value[i] # <<>>
         \/ (Len(value) > 0 /\ value[Len(value)] # 0)

\* not any(input): no row of the bucket is a non-empty list
NotAny(input) == \A i \in 1..Len(input) : input[i] = <<>>

\* FirstAndRest without the brackets
FirstAndRestBare(first, rest) ==
    first \o <<" ">> \o Join(<<" ", "|", " ">>, rest)

\* "first (second | third)"
FirstAndRest(first, rest) ==
    first \o <<" ", "(">> \o Join(<<" ", "|", " ">>, rest) \o <<")">>

\* the value of val_str after the method branches for one row; val_str is
\* [bound, s], unbound until a branch has assigned it
RenderValue(value, m, geometry_type, val_str) ==
    LET set(t) == [bound |-> TRUE, s |-> t]
        n == Len(value)
        meas_str == CASE geometry_type = "POLYGON"  -> <<"h", "a">>
                      [] geometry_type = "POLYLINE" -> <<"k", "m">>
                      [] OTHER                      -> <<>>
    IN  CASE m = T_PRESENT ->
               IF n > 1 THEN set(FirstAndRest(value[1], SubSeq(value, 2, n)))
               ELSE IF AnyValue(value, m) THEN set(value[1])
               ELSE set(T_Nil)
          [] m = T_COUNT ->
               IF n > 1
               THEN IF n > 2
                    THEN set(FirstAndRest(value[1], SubSeq(value, 2, n - 1))
                             \o <<" ", "-", " ">> \o StrNat(value[n]))
                    ELSE set(value[1] \o <<" ", "-", " ">> \o StrNat(value[n]))
               ELSE IF AnyValue(value, m) THEN set(StrNat(value[1]))
               ELSE val_str
          [] m = T_MEASURE ->
               IF n > 1
               THEN IF n > 2
                    THEN set(FirstAndRest(value[1], SubSeq(value, 2, n - 1))
                             \o <<" ", "-", " ">> \o FormatOneDecimal(value[n]) \o meas_str)
                    ELSE set(value[1] \o <<" ", "-", " ">>
                             \o FormatOneDecimal(value[n]) \o meas_str)
               ELSE IF AnyValue(value, m) THEN set(StrFloat(value[1]))
               ELSE val_str
          [] OTHER -> val_str

RECURSIVE RenderRows(_, _, _, _, _)
\* the loop "for value in input": the rendered rows in input order, or err
\* when output.append(val_str) reads an unbound val_str
RenderRows(input, m, geometry_type, val_str, output) ==
    IF input = <<>> THEN [err |-> FALSE, output |-> output, val_str |-> val_str]
    ELSE LET v == RenderValue(Head(input), m, geometry_type, val_str)
         IN  IF ~v.bound THEN [err |-> TRUE, output |-> output, val_str |-> val_str]
             ELSE RenderRows(Tail(input), m, geometry_type, v, Append(output, v.s))

Unbound == [bound |-> FALSE, s |-> <<>>]

\* the body of "for location in locations" for one location: attrs_poly or
\* attrs_buff, and the value val_str is left with
RenderLocation(input, m, geometry_type, val_str) ==
    IF NotAny(input)
    THEN [err |-> FALSE, output |-> <<T_Nil>>, val_str |-> val_str]
    ELSE LET r == RenderRows(input, m, geometry_type, val_str, <<>>)
         IN  [err |-> r.err, output |-> SortTexts(r.output), val_str |-> r.val_str]

\* 'In polygon:' / 'In {d}m buffer:' followed by its rows
Section(label, attrs) ==
    label \o (IF attrs[1] # T_Nil THEN T_CRLF ELSE <<" ">>) \o Join(T_CRLF, attrs)

BufferLabel(buffer_distance) ==
    <<"I", "n", " ">> \o StrNat(buffer_distance) \o
    <<"m", " ", "b", "u", "f", "f", "e", "r", ":">>

\* _results_to_string: the cell text as a Python str, or None when the body
\* raises (the except clause logs and the function returns nothing)
ResultsToString(list_poly, list_buff, method, buffer_distance, geometry_type) ==
    LET m    == Upper(method)
        poly == RenderLocation(list_poly, m, geometry_type, Unbound)
        buff == RenderLocation(list_buff, m, geometry_type, poly.val_str)
    IN  IF poly.err THEN None
        ELSE IF buffer_distance > 0
        THEN IF buff.err THEN None
             ELSE PyStr(Section(T_InPolygon, poly.output) \o T_CRLF \o
                        Section(BufferLabel(buffer_distance), buff.output))
        ELSE PyStr(Section(T_InPolygon, poly.output))

-----------------------------------------------------------------------------
(* The environment: datasets on disk and what the cursors can yield *)

\* desc.shapeType of the value feature classes of the model
FcShapeType(fc_name) ==
    CASE fc_name = "fcHeritage" -> "Polygon"
      [] fc_name = "fcZones"    -> "Polygon"
      [] fc_name = "fcVeg"      -> "Polygon"
      [] fc_name = "fcRoads"    -> "Polyline"
      [] OTHER                  -> "Point"

\* shapeType.upper()
UpperShape(t) ==
    CASE t = "Polygon"  -> "POLYGON"
      [] t = "Polyline" -> "POLYLINE"
      [] OTHER          -> "POINT"

T_Blank == <<" ">>
T_NAME  == <<"N", "A", "M", "E">>

RefRow(theme_name, requires_check, fc_name, query, method, buffer_distance) ==
    [theme_name |-> theme_name, requires_check |-> requires_check,
     fc_name |-> fc_name, query |-> query, method |-> method,
     repfld |-> <<T_NAME, T_Blank, <<>>, <<>>>>,
     buffer_distance |-> buffer_distance]

RowHeritage == RefRow("Heritage", <<"Y">>, "fcHeritage", <<>>, T_PRESENT, 100)
RowZones    == RefRow("Zones", <<"y">>, "fcZones", <<" ">>, T_COUNT, 0)
RowVeg      == RefRow("Veg", <<"Y">>, "fcVeg", <<"q">>, T_MEASURE, 100)
RowRoads    == RefRow("Roads", <<"Y">>, "fcRoads", <<>>,
                      <<"M", "e", "a", "s", "u", "r", "e">>, 0)
RowOff      == RefRow("Off", <<"N">>, "fcOff", <<>>, T_PRESENT, 100)

\* the enabled rows the cleaning of the field values is studied on
RowNotes == RefRow("Notes", <<"Y">>, "fcHeritage", <<>>, T_PRESENT, 0)
RowTally == RefRow("Tally", <<"Y">>, "fcZones", <<>>, T_COUNT, 100)

CleanRows == { RowNotes, RowTally }

\* rows that share a feature class or a buffer distance with another row
RowHeritageB == RefRow("HeritageB", <<"Y">>, "fcHeritage", <<"q">>, T_COUNT, 100)
RowSites     == RefRow("Sites", <<"Y">>, "fcSites", <<>>, T_PRESENT, 50)

\* a MEASURE row on a point feature class
RowPoints == RefRow("Points", <<"Y">>, "fcSites", <<>>, T_MEASURE, 100)

\* reference tables with the MEASURE row on a point feature class, alone,
\* before and after another enabled row
PointTables == { <<RowPoints>>, <<RowPoints, RowZones>>, <<RowZones, RowPoints>> }

\* rows the reference tables of the cache study are made of
CacheRows == { RowHeritage, RowHeritageB, RowSites, RowZones, RowOff }

T_KIND == <<"K", "I", "N", "D">>
T_CODE == <<"C", "O", "D", "E">>

\* enabled rows with one, two and three reporting fields, the formatter is
\* studied on
RowLabels  == RefRow("Labels", <<"Y">>, "fcHeritage", <<>>, T_PRESENT, 0)
RowOwners  == [RefRow("Owners", <<"Y">>, "fcHeritage", <<>>, T_PRESENT, 100)
                 EXCEPT !.repfld = <<T_NAME, T_KIND, <<>>, <<>>>>]
RowTenure  == [RefRow("Tenure", <<"Y">>, "fcZones", <<>>, T_PRESENT, 0)
                 EXCEPT !.repfld = <<T_NAME, T_KIND, T_Blank, T_CODE>>]
RowCountBy == [RefRow("CountBy", <<"Y">>, "fcZones", <<>>, T_COUNT, 0)
                 EXCEPT !.repfld = <<T_NAME, <<>>, T_KIND, <<>>>>]
RowAreas   == RefRow("Areas", <<"Y">>, "fcVeg", <<>>, T_MEASURE, 0)
RowLengths == [RefRow("Lengths", <<"Y">>, "fcRoads", <<>>, T_MEASURE, 100)
                 EXCEPT !.repfld = <<T_NAME, T_KIND, <<>>, <<>>>>]

FormatRows == { RowLabels, RowOwners, RowTenure, RowCountBy, RowAreas, RowLengths }

\* rows a reference table of the pipeline runs is made of
RefRows == { RowHeritage, RowZones, RowOff }

\* the enabled rows the engine is studied on, one at a time
EngineRows == { RowHeritage, RowZones, RowVeg, RowRoads }

\* reference tables: up to MaxRows different rows, in any order
RefTables ==
    UNION { { t \in [1..n -> RefRows] : \A i, j \in 1..n : i # j => t[i] # t[j] }
            : n \in 1..MaxRows }

\* reference tables of the cache study: up to MaxRows different rows in any
\* order, and a table in which a row of another feature class stands between
\* two rows of one feature class
CacheTables ==
    UNION { { t \in [1..n -> CacheRows] : \A i, j \in 1..n : i # j => t[i] # t[j] }
            : n \in 1..MaxRows }
    \cup { <<RowHeritage, RowSites, RowHeritageB>> }

\* subject features of the input feature class, in cursor order
WorksLists == { <<2, 1>>, <<1>>, <<>> }

\* raw values of a reporting field of a joined record
RawValues == { None, PyStr(<<"A">>), PyStr(<<"B">>) }

\* the text of n characters c
Rep(c, n) == [i \in 1..n |-> c]

\* raw values of a reporting field that the cleaning has work with: no-value
\* words in several cases, characters that break a CSV line, blanks, numbers,
\* dates, and texts at and over MAX_STRING_LEN
DirtyValues ==
    { None,
      PyStr(<<"N", "U", "L", "L">>),
      PyStr(<<" ", "n", "a", "N", " ">>),
      PyStr(<<"n", "'", "o", "n", "e">>),
      PyStr(<<>>),
      PyStr(<<" ", " ">>),
      PyStr(<<"'">>),
      PyStr(<<"a", ",", "b">>),
      PyStr(<<"\n", "a", "\n", "b">>),
      PyStr(<<" ", "O", "'", "B", " ">>),
      PyInt(7),
      PyDate(20240131),
      PyStr(Rep("x", MAX_STRING_LEN)),
      PyStr(Rep("x", MAX_STRING_LEN + 1)),
      PyStr(Rep("x", MAX_STRING_LEN) \o <<"'">>),
      PyStr(Rep("x", MAX_STRING_LEN - 4) \o <<",", "\n", "y", "z">>) }

\* geometries of joined records: area in square metres, length in metres
Shapes == { [area |-> 0, length |-> 0],
            [area |-> 20000, length |-> 2000],
            [area |-> 30000, length |-> 3000] }

\* the shape of the records of a theme whose method never reads the shape
AnyShape == [area |-> 20000, length |-> 2000]

-----------------------------------------------------------------------------
(* Dictionaries *)

\* d[k] = v for a dict kept as a function
DictSet(d, k, v) == [x \in DOMAIN d \cup {k} |-> IF x = k THEN v ELSE d[x]]

\* position of fc_name in the insertion-ordered reftab_dict, 0 if absent
RefIndex(rd, fc_name) ==
    IF \E i \in 1..Len(rd) : rd[i].fc_name = fc_name
    THEN CHOOSE i \in 1..Len(rd) : rd[i].fc_name = fc_name
    ELSE 0

\* self.reftab_dict[fc_name] = entry: a new key goes last, an existing key
\* keeps its position
RefPut(rd, entry) ==
    LET i == RefIndex(rd, entry.fc_name)
    IN  IF i = 0 THEN Append(rd, entry) ELSE [rd EXCEPT ![i] = entry]

\* f"{fc_name}_{id(self)}": the layer made from the feature class fc_name
LayerName(fc_name) == [layer_of |-> fc_name]

UnboundLayer == [layer_of |-> "unbound"]

\* the rpt_fields of process_intersections: the non-blank repfld1..repfld4
RECURSIVE RptFields(_)
RptFields(repfld) ==
    IF repfld = <<>> THEN <<>>
    ELSE (IF Head(repfld) # <<>> /\ Strip(Head(repfld)) # <<>>
          THEN <<Head(repfld)>> ELSE <<>>) \o RptFields(Tail(repfld))

RECURSIVE BufferDistances(_, _)
\* load_and_buffer_works_fc 461-468: the distinct positive distances, in
\* reftab_dict order
BufferDistances(rd, acc) ==
    IF rd = <<>> THEN acc
    ELSE LET dist == Head(rd).buffer_distance
         IN  BufferDistances(Tail(rd),
                 IF dist > 0 /\ \A i \in 1..Len(acc) : acc[i] # dist
                 THEN Append(acc, dist) ELSE acc)

\* a cache test that never finds the key
InCacheNever(keys, key) == FALSE

\* "fc_name not in self.values_cache" (551), "name not in self.buffer_cache"
\* (475, 484): is the key in the cache
InCache(keys, key) == key \in keys

\* a lookup that finds a layer under every key
BufferCacheGetAny(cache, key) == TRUE

\* self.buffer_cache.get(key): is the layer of that key cached (key 0 is the
\* unbuffered base layer, key d the d metre buffer)
BufferCacheGet(cache, key) == key \in cache

\* the buffer test without the comparison with 0
BufferRequiredAlways(buffer_dist) == TRUE

\* process_intersections 276: buffer_dist is not None and buffer_dist > 0
BufferRequired(buffer_dist) == buffer_dist > 0

\* logMessage('error', ...) of the except clause of step, about fc_name
LogError(log, step, fc_name) == Append(log, [step |-> step, fc |-> fc_name])

\* one geoprocessing call, or one invocation of _process_spatial_intersection
Call(op, fc_name, location, dist) ==
    [op |-> op, fc |-> fc_name, loc |-> location, dist |-> dist]

-----------------------------------------------------------------------------
(* State *)

\* what __main__ 621-626 tests, and whether the input dataset has the field
\* the cursors ask for
ValidConfig ==
    [input_fc |-> TRUE, ref_table |-> TRUE, gispub_path |-> TRUE, id_field |-> TRUE]

Configs ==
    { ValidConfig,
      [ValidConfig EXCEPT !.input_fc = FALSE],
      [ValidConfig EXCEPT !.ref_table = FALSE],
      [ValidConfig EXCEPT !.gispub_path = FALSE],
      [ValidConfig EXCEPT !.id_field = FALSE] }

FeatureIds == {1, 2}
FcNames    == { r.fc_name : r \in RefRows \cup EngineRows \cup CacheRows }
Locations  == {"in_polygon", "in_buffer"}

NoRecords == [n |-> 0, area |-> 0, length |-> 0, seen |-> {}, recs |-> <<>>]

\* a layer without selection, and a layer with the features ids selected
NoSelection == [active |-> FALSE, ids |-> {}]
Selected(ids) == [active |-> TRUE, ids |-> ids]

\* the state of the variables of the per-feature pipeline in a run of V3
PipelineIdle ==
    /\ counter = 0
    /\ theme_pos = 0
    /\ output_file = <<>>
    /\ selection = [layer \in {"fcHeritage"} |-> NoSelection]
    /\ checks = <<>>
    /\ trunc_attrs = <<>>

Init ==
    /\ PipelineIdle
    /\ config = ValidConfig
    /\ reftable \in RefTables
    /\ works \in WorksLists
    /\ pc = "load_values"
    /\ idx = 1
    /\ loc = "none"
    /\ layer_name = UnboundLayer
    /\ values_cache = <<>>
    /\ buffer_cache = {}
    /\ reftab_dict = <<>>
    /\ output_dict = <<>>
    /\ output_ids = <<>>
    /\ progress = 1
    /\ csv = <<>>
    /\ csv_open = TRUE
    /\ perf_log = <<>>
    /\ raised = FALSE
    /\ calls = <<>>
    /\ joined = [fc \in FcNames |-> [l \in Locations |-> [f \in FeatureIds |-> NoRecords]]]
    /\ call_status = [fc \in FcNames |-> [l \in Locations |-> "none"]]
    /\ budget = [recs |-> MaxRunRecs, faults |-> MaxFaults]

-----------------------------------------------------------------------------
(* STEP 1: load_values_fcs, 517-581 *)

\* the reftab_dict entry of a row, 557-576
RefEntry(row, cached_fc) ==
    [fc_name          |-> row.fc_name,
     theme_name       |-> row.theme_name,
     cached_fc        |-> cached_fc,
     geometry_type    |-> UpperShape(FcShapeType(cached_fc.layer_of)),
     method           |-> row.method,
     definition_query |-> IF row.query = <<>> \/ Strip(row.query) = <<>>
                          THEN None ELSE PyStr(row.query),
     buffer_distance  |-> row.buffer_distance,
     repfld           |-> row.repfld]

\* requires_check.upper() == "Y"
RequiresCheck(row) == Upper(row.requires_check) = <<"Y">>

\* one iteration of the cursor loop
LoadValuesRow ==
    /\ pc = "load_values"
    /\ idx <= Len(reftable)
    /\ LET row == reftable[idx]
           new == ~InCache(DOMAIN values_cache, row.fc_name)
           ln  == IF new THEN LayerName(row.fc_name) ELSE layer_name
       IN  IF RequiresCheck(row)
           THEN /\ layer_name' = ln
                /\ values_cache' = IF new THEN DictSet(values_cache, row.fc_name, ln)
                                   ELSE values_cache
                /\ calls' = IF new
                            THEN Append(calls, Call("MakeFeatureLayer", row.fc_name, "", 0))
                            ELSE calls
                /\ reftab_dict' = RefPut(reftab_dict, RefEntry(row, ln))
           ELSE UNCHANGED <<layer_name, values_cache, calls, reftab_dict>>
    /\ idx' = idx + 1
    /\ UNCHANGED <<pipeline, config, reftable, works, pc, loc, buffer_cache, output_dict, output_ids,
                   progress, csv, csv_open, perf_log, raised, joined, call_status, budget>>

\* MakeFeatureLayer or Describe raises on an enabled row: the except clause
\* around the whole loop logs, and load_values_fcs returns
LoadValuesError ==
    /\ pc = "load_values"
    /\ budget.faults > 0
    /\ budget' = [budget EXCEPT !.faults = @ - 1]
    /\ idx <= Len(reftable)
    /\ RequiresCheck(reftable[idx])
    /\ LET row == reftable[idx]
           new == ~InCache(DOMAIN values_cache, row.fc_name)
       IN  \E stage \in {"make", "describe"} :
              /\ stage = "make" => new
              /\ calls' = IF new
                          THEN Append(calls, Call("MakeFeatureLayer", row.fc_name, "", 0))
                          ELSE calls
              /\ IF stage = "describe" /\ new
                 THEN /\ layer_name' = LayerName(row.fc_name)
                      /\ values_cache' = DictSet(values_cache, row.fc_name,
                                                 LayerName(row.fc_name))
                 ELSE UNCHANGED <<layer_name, values_cache>>
              /\ perf_log' = LogError(perf_log, "load_values_fcs", row.fc_name)
    /\ pc' = "load_works"
    /\ idx' = 0
    /\ UNCHANGED <<pipeline, config, reftable, works, loc, buffer_cache, reftab_dict, output_dict,
                   output_ids, progress, csv, csv_open, raised, joined, call_status>>

\* the cursor is exhausted
LoadValuesDone ==
    /\ pc = "load_values"
    /\ idx > Len(reftable)
    /\ pc' = "load_works"
    /\ idx' = 0
    /\ UNCHANGED <<pipeline, config, reftable, works, loc, layer_name, values_cache, buffer_cache,
                   reftab_dict, output_dict, output_ids, progress, csv, csv_open,
                   perf_log, raised, calls, joined, call_status, budget>>

-----------------------------------------------------------------------------
(* STEP 2: load_and_buffer_works_fc, 451-515 *)

\* 473-478: the unbuffered layer, unless cached
LoadWorksBase ==
    /\ pc = "load_works"
    /\ idx = 0
    /\ IF ~InCache(buffer_cache, 0)
       THEN /\ calls' = Append(calls, Call("MakeFeatureLayer", "works", "", 0))
            /\ buffer_cache' = buffer_cache \cup {0}
       ELSE UNCHANGED <<calls, buffer_cache>>
    /\ idx' = 1
    /\ UNCHANGED <<pipeline, config, reftable, works, pc, loc, layer_name, values_cache, reftab_dict,
                   output_dict, output_ids, progress, csv, csv_open, perf_log, raised,
                   joined, call_status, budget>>

\* 481-510: one iteration of "for distance in buffer_distances"
LoadWorksBuffer ==
    /\ pc = "load_works"
    /\ idx >= 1
    /\ idx <= Len(BufferDistances(reftab_dict, <<>>))
    /\ LET distance == BufferDistances(reftab_dict, <<>>)[idx]
       IN  IF ~InCache(buffer_cache, distance)
           THEN /\ calls' = Append(calls, Call("Buffer", "works", "", distance))
                /\ buffer_cache' = buffer_cache \cup {distance}
           ELSE UNCHANGED <<calls, buffer_cache>>
    /\ idx' = idx + 1
    /\ UNCHANGED <<pipeline, config, reftable, works, pc, loc, layer_name, values_cache, reftab_dict,
                   output_dict, output_ids, progress, csv, csv_open, perf_log, raised,
                   joined, call_status, budget>>

\* Describe or MakeFeatureLayer raises (idx = 0), or the Buffer of the next
\* distance raises: the except clause logs and the method returns normally
LoadWorksError ==
    /\ pc = "load_works"
    /\ budget.faults > 0
    /\ budget' = [budget EXCEPT !.faults = @ - 1]
    /\ idx <= Len(BufferDistances(reftab_dict, <<>>))
    /\ calls' = IF idx = 0 THEN calls
                ELSE Append(calls, Call("Buffer", "works", "",
                                        BufferDistances(reftab_dict, <<>>)[idx]))
    /\ perf_log' = LogError(perf_log,
                            IF idx = 0 THEN "load_and_buffer_works_fc"
                            ELSE "load_and_buffer_works_fc:Buffer", "works")
    /\ pc' = "create_dict"
    /\ idx' = 1
    /\ UNCHANGED <<pipeline, config, reftable, works, loc, layer_name, values_cache, buffer_cache,
                   reftab_dict, output_dict, output_ids, progress, csv, csv_open,
                   raised, joined, call_status>>

LoadWorksDone ==
    /\ pc = "load_works"
    /\ idx > Len(BufferDistances(reftab_dict, <<>>))
    /\ pc' = "create_dict"
    /\ idx' = 1
    /\ UNCHANGED <<pipeline, config, reftable, works, loc, layer_name, values_cache, buffer_cache,
                   reftab_dict, output_dict, output_ids, progress, csv, csv_open,
                   perf_log, raised, calls, joined, call_status, budget>>

-----------------------------------------------------------------------------
(* STEP 3: create_output_dict, 419-449 *)

RECURSIVE ColumnNames(_)
\* 428-430
ColumnNames(rd) ==
    IF rd = <<>> THEN <<>> ELSE <<Head(rd).theme_name>> \o ColumnNames(Tail(rd))

\* 436-444: the value stored for one feature
EmptyFeature(rd) ==
    [t \in { ColumnNames(rd)[i] : i \in 1..Len(rd) } |->
        [in_polygon |-> <<>>, in_buffer |-> <<>>]]

\* one iteration of the cursor loop
CreateDictRow ==
    /\ pc = "create_dict"
    /\ config.id_field
    /\ idx <= Len(works)
    /\ LET feature == works[idx]
       IN  /\ output_dict' = DictSet(output_dict, feature, EmptyFeature(reftab_dict))
           /\ output_ids' = IF feature \in DOMAIN output_dict THEN output_ids
                            ELSE Append(output_ids, feature)
    /\ idx' = idx + 1
    /\ UNCHANGED <<pipeline, config, reftable, works, pc, loc, layer_name, values_cache, buffer_cache,
                   reftab_dict, progress, csv, csv_open, perf_log, raised, calls,
                   joined, call_status, budget>>

\* the cursor raises: the except clause logs and the method returns normally
CreateDictError ==
    /\ pc = "create_dict"
    /\ config.id_field
    /\ budget.faults > 0
    /\ budget' = [budget EXCEPT !.faults = @ - 1]
    /\ idx <= Len(works)
    /\ perf_log' = LogError(perf_log, "create_output_dict", "works")
    /\ pc' = "intersect"
    /\ idx' = 1
    /\ UNCHANGED <<pipeline, config, reftable, works, loc, layer_name, values_cache, buffer_cache,
                   reftab_dict, output_dict, output_ids, progress, csv, csv_open,
                   raised, calls, joined, call_status>>

\* the input dataset has no field FEATURE_ID: SearchCursor raises at line 433,
\* the except clause logs and the method returns normally
CreateDictNoField ==
    /\ pc = "create_dict"
    /\ ~config.id_field
    /\ perf_log' = LogError(perf_log, "create_output_dict", "works")
    /\ pc' = "intersect"
    /\ idx' = 1
    /\ UNCHANGED <<pipeline, config, reftable, works, loc, layer_name, values_cache, buffer_cache,
                   reftab_dict, output_dict, output_ids, progress, csv, csv_open,
                   raised, calls, joined, call_status, budget>>

CreateDictDone ==
    /\ pc = "create_dict"
    /\ config.id_field
    /\ idx > Len(works)
    /\ pc' = "intersect"
    /\ idx' = 1
    /\ UNCHANGED <<pipeline, config, reftable, works, loc, layer_name, values_cache, buffer_cache,
                   reftab_dict, output_dict, output_ids, progress, csv, csv_open,
                   perf_log, raised, calls, joined, call_status, budget>>

-----------------------------------------------------------------------------
(* STEP 4: process_intersections, 244-293, and _process_spatial_intersection,
   295-417 *)

SetStatus(cs, fc_name, location, status) ==
    [cs EXCEPT ![fc_name][location] = status]

\* the joined records of one cursor: one raw value per reporting field
RECURSIVE FieldTuples(_, _)
FieldTuples(n, values) ==
    IF n = 0 THEN { <<>> }
    ELSE { Append(t, v) : t \in FieldTuples(n - 1, values), v \in values }

\* the raw values the reporting fields of the theme e hold: None and "A"
\* everywhere, "B" where the records have one field and no measure, "Z" in
\* the theme Labels, and the values of DirtyValues in the themes Notes and Tally
RawValuesOf(e) ==
    IF e.theme_name = "Labels" THEN { None, PyStr(<<"A">>), PyStr(<<"Z">>) }
    ELSE IF e.theme_name \in {"Notes", "Tally"} THEN DirtyValues
    ELSE IF Upper(e.method) = T_MEASURE \/ Len(RptFields(e.repfld)) > 1
    THEN RawValues \ { PyStr(<<"B">>) }
    ELSE RawValues

\* the shapes of the joined records of the theme e: read by MEASURE only, and
\* all alike where the records have more than one field
ShapesOf(e) ==
    IF Upper(e.method) # T_MEASURE THEN {AnyShape}
    ELSE IF Len(RptFields(e.repfld)) > 1 THEN { [area |-> 30000, length |-> 3000] }
    ELSE Shapes

\* records the join of the theme e can yield: the ids are FEATURE_ID values of
\* the works layer; the shape is read by MEASURE only
JoinedRecords(e) ==
    [id     : { works[i] : i \in 1..Len(works) },
     fields : FieldTuples(Len(RptFields(e.repfld)), RawValuesOf(e)),
     shape  : ShapesOf(e)]

\* the records the cursor of (fc_name, location) has yielded so far
Yielded(j, fc_name, location) ==
    j[fc_name][location][1].n + j[fc_name][location][2].n

CountRecord(j, fc_name, location, rec) ==
    [j EXCEPT ![fc_name][location][rec.id] =
        [n      |-> @.n + 1,
         area   |-> @.area + rec.shape.area,
         length |-> @.length + rec.shape.length,
         seen   |-> @.seen \cup {rec.fields},
         recs   |-> Append(@.recs, rec)]]

\* where process_intersections goes on when _process_spatial_intersection
\* returns: after in_polygon to the buffer test of line 276, after in_buffer
\* to line 290 (progress += 1) and the next theme
Return(location) ==
    IF location = "in_polygon"
    THEN /\ pc' = "after_polygon"
         /\ UNCHANGED <<idx, progress>>
    ELSE /\ pc' = "intersect"
         /\ idx' = idx + 1
         /\ progress' = progress + 1

\* 303-339: the selection, the Intersect and the count. The call raises, or
\* finds no intersection, or opens the cursor on at least one joined record
EngineStart(e, location) ==
    /\ calls' = Append(calls, Call("_process_spatial_intersection", e.fc_name, location, 0))
    /\ \E outcome \in {"raise", "empty", "rows"} :
          CASE outcome = "raise" ->
                 /\ budget.faults > 0
                 /\ budget' = [budget EXCEPT !.faults = @ - 1]
                 /\ perf_log' = LogError(perf_log, "_process_spatial_intersection", e.fc_name)
                 /\ call_status' = SetStatus(call_status, e.fc_name, location, "failed")
                 /\ Return(location)
                 /\ UNCHANGED loc
            [] outcome = "empty" ->
                 /\ call_status' = SetStatus(call_status, e.fc_name, location, "empty")
                 /\ Return(location)
                 /\ UNCHANGED <<perf_log, loc, budget>>
            [] OTHER ->
                 /\ works # <<>>
                 /\ budget.recs > 0
                 /\ call_status' = SetStatus(call_status, e.fc_name, location, "running")
                 /\ pc' = "rows"
                 /\ loc' = location
                 /\ UNCHANGED <<perf_log, idx, progress, budget>>

\* process_intersections(fc_name) up to the in_polygon call, 251-273
IntersectStart ==
    /\ pc = "intersect"
    /\ idx <= Len(reftab_dict)
    /\ LET e == reftab_dict[idx]
       IN  IF ~BufferCacheGet(buffer_cache, 0)
           THEN /\ perf_log' = LogError(perf_log, "process_intersections", e.fc_name)
                /\ idx' = idx + 1
                /\ UNCHANGED <<pc, loc, progress, calls, call_status, budget>>
           ELSE EngineStart(e, "in_polygon")
    /\ UNCHANGED <<pipeline, config, reftable, works, layer_name, values_cache, buffer_cache, reftab_dict,
                   output_dict, output_ids, csv, csv_open, raised, joined>>

\* process_intersections from the buffer test to the in_buffer call, 275-290
BufferStart ==
    /\ pc = "after_polygon"
    /\ LET e == reftab_dict[idx]
       IN  IF BufferRequired(e.buffer_distance)
           THEN IF ~BufferCacheGet(buffer_cache, e.buffer_distance)
                THEN /\ perf_log' = LogError(perf_log, "process_intersections", e.fc_name)
                     /\ pc' = "intersect"
                     /\ idx' = idx + 1
                     /\ UNCHANGED <<loc, progress, calls, call_status, budget>>
                ELSE EngineStart(e, "in_buffer")
           ELSE /\ pc' = "intersect"
                /\ idx' = idx + 1
                /\ progress' = progress + 1
                /\ UNCHANGED <<loc, perf_log, calls, call_status, budget>>
    /\ UNCHANGED <<pipeline, config, reftable, works, layer_name, values_cache, buffer_cache, reftab_dict,
                   output_dict, output_ids, csv, csv_open, raised, joined>>

\* one iteration of "for row in cursor", 340-408; an iteration that raises
\* ends the call in the except clause of 416
IntersectRow ==
    /\ pc = "rows"
    /\ config.id_field
    /\ budget.recs > 0
    /\ LET e == reftab_dict[idx]
       IN  \E rec \in JoinedRecords(e) :
              LET r == ProcessRow(output_dict, e.method, e.geometry_type,
                                  e.theme_name, loc, rec)
              IN  /\ joined' = CountRecord(joined, e.fc_name, loc, rec)
                  /\ output_dict' = r.od
                  /\ IF r.err
                     THEN /\ perf_log' = LogError(perf_log, "_process_spatial_intersection",
                                                  e.fc_name)
                          /\ call_status' = SetStatus(call_status, e.fc_name, loc, "failed")
                          /\ Return(loc)
                     ELSE UNCHANGED <<perf_log, call_status, pc, idx, progress>>
    /\ budget' = [budget EXCEPT !.recs = @ - 1]
    /\ UNCHANGED <<pipeline, config, reftable, works, loc, layer_name, values_cache, buffer_cache,
                   reftab_dict, output_ids, csv, csv_open, raised, calls>>

\* the cursor raises while it is iterated: except clause of 416
IntersectCursorError ==
    /\ pc = "rows"
    /\ config.id_field
    /\ budget.faults > 0
    /\ budget' = [budget EXCEPT !.faults = @ - 1]
    /\ LET e == reftab_dict[idx]
       IN  /\ perf_log' = LogError(perf_log, "_process_spatial_intersection", e.fc_name)
           /\ call_status' = SetStatus(call_status, e.fc_name, loc, "failed")
    /\ Return(loc)
    /\ UNCHANGED <<pipeline, config, reftable, works, loc, layer_name, values_cache, buffer_cache,
                   reftab_dict, output_dict, output_ids, csv, csv_open, raised, calls,
                   joined>>

\* the joined data has no field FEATURE_ID: SearchCursor raises at line 339
\* and the except clause of 416 logs
IntersectNoField ==
    /\ pc = "rows"
    /\ ~config.id_field
    /\ LET e == reftab_dict[idx]
       IN  /\ perf_log' = LogError(perf_log, "_process_spatial_intersection", e.fc_name)
           /\ call_status' = SetStatus(call_status, e.fc_name, loc, "failed")
    /\ Return(loc)
    /\ UNCHANGED <<pipeline, config, reftable, works, loc, layer_name, values_cache, buffer_cache,
                   reftab_dict, output_dict, output_ids, csv, csv_open, raised, calls,
                   joined, budget>>

\* the cursor is exhausted (it held at least one record), 410-414
IntersectEnd ==
    /\ pc = "rows"
    /\ Yielded(joined, reftab_dict[idx].fc_name, loc) > 0
    /\ call_status' = SetStatus(call_status, reftab_dict[idx].fc_name, loc, "ok")
    /\ Return(loc)
    /\ UNCHANGED <<pipeline, config, reftable, works, loc, layer_name, values_cache, buffer_cache,
                   reftab_dict, output_dict, output_ids, csv, csv_open, perf_log, raised,
                   calls, joined, budget>>

\* run() 87-88: the loop over reftab_dict is exhausted
IntersectDone ==
    /\ pc = "intersect"
    /\ idx > Len(reftab_dict)
    /\ pc' = "csv"
    /\ UNCHANGED <<pipeline, config, reftable, works, idx, loc, layer_name, values_cache, buffer_cache,
                   reftab_dict, output_dict, output_ids, progress, csv, csv_open,
                   perf_log, raised, calls, joined, call_status, budget>>

-----------------------------------------------------------------------------
(* STEP 5: data_to_csv, 100-148 *)

\* 127-131: the entry of the theme, the last one of that name
ThemeEntry(rd, theme) ==
    rd[CHOOSE i \in 1..Len(rd) :
          /\ rd[i].theme_name = theme
          /\ \A j \in (i + 1)..Len(rd) : rd[j].theme_name # theme]

\* Cell that passes the in_polygon list for both locations
CellPolygonOnly(od, rd, feature_id, theme) ==
    LET e == ThemeEntry(rd, theme)
    IN  ResultsToString(od[feature_id][theme]["in_polygon"],
                        od[feature_id][theme]["in_polygon"],
                        e.method, e.buffer_distance, e.geometry_type)

\* 124-138: the cell of one feature and theme
Cell(od, rd, feature_id, theme) ==
    LET e == ThemeEntry(rd, theme)
    IN  ResultsToString(od[feature_id][theme]["in_polygon"],
                        od[feature_id][theme]["in_buffer"],
                        e.method, e.buffer_distance, e.geometry_type)

\* 121-141: the data row of one feature
DataRow(od, rd, theme_names, feature_id) ==
    [id    |-> feature_id,
     cells |-> [k \in 1..Len(theme_names) |-> Cell(od, rd, feature_id, theme_names[k])]]

\* data_to_csv: the header and one row per key of output_dict; with an empty
\* output_dict next() raises StopIteration and the except clause logs
DataToCsv ==
    /\ pc = "csv"
    /\ IF output_ids = <<>>
       THEN /\ perf_log' = LogError(perf_log, "data_to_csv", "")
            /\ UNCHANGED <<csv, csv_open>>
       ELSE LET theme_names == ColumnNames(reftab_dict)
            IN  /\ csv' = <<[id |-> FEATURE_ID, cells |-> theme_names]>> \o
                          [k \in 1..Len(output_ids) |->
                              DataRow(output_dict, reftab_dict, theme_names, output_ids[k])]
                /\ csv_open' = FALSE
                /\ UNCHANGED perf_log
    /\ pc' = "done"
    /\ UNCHANGED <<pipeline, config, reftable, works, idx, loc, layer_name, values_cache, buffer_cache,
                   reftab_dict, output_dict, output_ids, progress, raised, calls, joined,
                   call_status, budget>>

-----------------------------------------------------------------------------
(* run(), 69-98: the steps in sequence. Every step catches its own
   exceptions, so nothing reaches the except clause of run() *)

Next ==
    \/ LoadValuesRow
    \/ LoadValuesError
    \/ LoadValuesDone
    \/ LoadWorksBase
    \/ LoadWorksBuffer
    \/ LoadWorksError
    \/ LoadWorksDone
    \/ CreateDictRow
    \/ CreateDictError
    \/ CreateDictDone
    \/ IntersectStart
    \/ BufferStart
    \/ IntersectRow
    \/ IntersectCursorError
    \/ IntersectEnd
    \/ IntersectDone
    \/ DataToCsv

Spec == Init /\ [][Next]_vars

-----------------------------------------------------------------------------
(* The engine on one theme: a run over a reference table of one enabled row
   in which no geoprocessing call raises *)

InitEngine ==
    /\ PipelineIdle
    /\ config = ValidConfig
    /\ reftable \in { <<row>> : row \in EngineRows }
    /\ works \in WorksLists
    /\ pc = "load_values"
    /\ idx = 1
    /\ loc = "none"
    /\ layer_name = UnboundLayer
    /\ values_cache = <<>>
    /\ buffer_cache = {}
    /\ reftab_dict = <<>>
    /\ output_dict = <<>>
    /\ output_ids = <<>>
    /\ progress = 1
    /\ csv = <<>>
    /\ csv_open = TRUE
    /\ perf_log = <<>>
    /\ raised = FALSE
    /\ calls = <<>>
    /\ joined = [fc \in FcNames |-> [l \in Locations |-> [f \in FeatureIds |-> NoRecords]]]
    /\ call_status = [fc \in FcNames |-> [l \in Locations |-> "none"]]
    /\ budget = [recs |-> MaxRecs, faults |-> 0]

NextEngine ==
    \/ LoadValuesRow
    \/ LoadValuesDone
    \/ LoadWorksBase
    \/ LoadWorksBuffer
    \/ LoadWorksDone
    \/ CreateDictRow
    \/ CreateDictDone
    \/ IntersectStart
    \/ BufferStart
    \/ IntersectRow
    \/ IntersectEnd
    \/ IntersectDone
    \/ DataToCsv

SpecEngine == InitEngine /\ [][NextEngine]_vars

-----------------------------------------------------------------------------
(* The formatter: the engine and data_to_csv on one theme with one, two or
   three reporting fields and one subject feature; no call raises *)

InitFormat ==
    /\ PipelineIdle
    /\ config = ValidConfig
    /\ reftable \in { <<row>> : row \in FormatRows }
    /\ works = <<1>>
    /\ pc = "load_values"
    /\ idx = 1
    /\ loc = "none"
    /\ layer_name = UnboundLayer
    /\ values_cache = <<>>
    /\ buffer_cache = {}
    /\ reftab_dict = <<>>
    /\ output_dict = <<>>
    /\ output_ids = <<>>
    /\ progress = 1
    /\ csv = <<>>
    /\ csv_open = TRUE
    /\ perf_log = <<>>
    /\ raised = FALSE
    /\ calls = <<>>
    /\ joined = [fc \in FcNames |-> [l \in Locations |-> [f \in FeatureIds |-> NoRecords]]]
    /\ call_status = [fc \in FcNames |-> [l \in Locations |-> "none"]]
    /\ budget = [recs |-> MaxRecs, faults |-> 0]

SpecFormat == InitFormat /\ [][NextEngine]_vars

-----------------------------------------------------------------------------
(* The caches: runs over reference tables whose rows share feature classes
   and buffer distances, in which no geoprocessing call raises *)

InitCache ==
    /\ PipelineIdle
    /\ config = ValidConfig
    /\ reftable \in CacheTables
    /\ works \in WorksLists
    /\ pc = "load_values"
    /\ idx = 1
    /\ loc = "none"
    /\ layer_name = UnboundLayer
    /\ values_cache = <<>>
    /\ buffer_cache = {}
    /\ reftab_dict = <<>>
    /\ output_dict = <<>>
    /\ output_ids = <<>>
    /\ progress = 1
    /\ csv = <<>>
    /\ csv_open = TRUE
    /\ perf_log = <<>>
    /\ raised = FALSE
    /\ calls = <<>>
    /\ joined = [fc \in FcNames |-> [l \in Locations |-> [f \in FeatureIds |-> NoRecords]]]
    /\ call_status = [fc \in FcNames |-> [l \in Locations |-> "none"]]
    /\ budget = [recs |-> 1, faults |-> 0]

SpecCache == InitCache /\ [][NextEngine]_vars

-----------------------------------------------------------------------------
(* __main__, 610-639: the validation of the inputs, then run(); no
   geoprocessing call raises on its own, but the configuration may be wrong *)

\* 619-633 up to tool.run(): ValueError for an input that does not exist,
\* re-raised by the except clause of 637-639
Main ==
    /\ pc = "main"
    /\ IF config.input_fc /\ config.ref_table /\ config.gispub_path
       THEN /\ pc' = "load_values"
            /\ UNCHANGED raised
       ELSE /\ pc' = "aborted"
            /\ raised' = TRUE
    /\ UNCHANGED <<pipeline, config, reftable, works, idx, loc, layer_name, values_cache,
                   buffer_cache, reftab_dict, output_dict, output_ids, progress, csv,
                   csv_open, perf_log, calls, joined, call_status, budget>>

InitMain ==
    /\ PipelineIdle
    /\ config \in Configs
    /\ reftable \in RefTables
    /\ works \in WorksLists
    /\ pc = "main"
    /\ idx = 1
    /\ loc = "none"
    /\ layer_name = UnboundLayer
    /\ values_cache = <<>>
    /\ buffer_cache = {}
    /\ reftab_dict = <<>>
    /\ output_dict = <<>>
    /\ output_ids = <<>>
    /\ progress = 1
    /\ csv = <<>>
    /\ csv_open = TRUE
    /\ perf_log = <<>>
    /\ raised = FALSE
    /\ calls = <<>>
    /\ joined = [fc \in FcNames |-> [l \in Locations |-> [f \in FeatureIds |-> NoRecords]]]
    /\ call_status = [fc \in FcNames |-> [l \in Locations |-> "none"]]
    /\ budget = [recs |-> MaxRunRecs, faults |-> 0]

NextMain ==
    \/ Main
    \/ CreateDictNoField
    \/ IntersectNoField
    \/ NextEngine

SpecMain == InitMain /\ [][NextMain]_vars

-----------------------------------------------------------------------------
(* MEASURE on a point layer: runs over the reference tables of PointTables in
   which no geoprocessing call raises *)

InitPoint ==
    /\ PipelineIdle
    /\ config = ValidConfig
    /\ reftable \in PointTables
    /\ works \in WorksLists
    /\ pc = "load_values"
    /\ idx = 1
    /\ loc = "none"
    /\ layer_name = UnboundLayer
    /\ values_cache = <<>>
    /\ buffer_cache = {}
    /\ reftab_dict = <<>>
    /\ output_dict = <<>>
    /\ output_ids = <<>>
    /\ progress = 1
    /\ csv = <<>>
    /\ csv_open = TRUE
    /\ perf_log = <<>>
    /\ raised = FALSE
    /\ calls = <<>>
    /\ joined = [fc \in FcNames |-> [l \in Locations |-> [f \in FeatureIds |-> NoRecords]]]
    /\ call_status = [fc \in FcNames |-> [l \in Locations |-> "none"]]
    /\ budget = [recs |-> MaxRunRecs, faults |-> 0]

SpecPoint == InitPoint /\ [][NextEngine]_vars

-----------------------------------------------------------------------------
(* The cleaning of the field values: the engine on one theme whose joined
   records hold the values of DirtyValues; one subject feature, no call raises *)

InitClean ==
    /\ PipelineIdle
    /\ config = ValidConfig
    /\ reftable \in { <<row>> : row \in CleanRows }
    /\ works = <<1>>
    /\ pc = "load_values"
    /\ idx = 1
    /\ loc = "none"
    /\ layer_name = UnboundLayer
    /\ values_cache = <<>>
    /\ buffer_cache = {}
    /\ reftab_dict = <<>>
    /\ output_dict = <<>>
    /\ output_ids = <<>>
    /\ progress = 1
    /\ csv = <<>>
    /\ csv_open = TRUE
    /\ perf_log = <<>>
    /\ raised = FALSE
    /\ calls = <<>>
    /\ joined = [fc \in FcNames |-> [l \in Locations |-> [f \in FeatureIds |-> NoRecords]]]
    /\ call_status = [fc \in FcNames |-> [l \in Locations |-> "none"]]
    /\ budget = [recs |-> MaxRunRecs, faults |-> 0]

SpecClean == InitClean /\ [][NextEngine]_vars

-----------------------------------------------------------------------------
(* The per-feature pipeline of Hume_ValuesCheckingScript_V2008.py: the loop
   of run() 650-653 over process_feature, from the state run() is in at line
   650: the header is written, the value layers and the buffers are cached.
   output_file is the text written after the header; idx is the position of
   the loop over feature_list, theme_pos the position of the cursor over the
   reference table inside process_feature *)

\* the features of a value layer
ValueFeatures == {1, 2}

\* a definition query of the reference table (a where clause), and the
\* features of a value layer that satisfy it
T_Where == <<"K", "I", "N", "D", " ", "=", " ", "1">>

QuerySelection(query) == {1}

\* a reporting field value of the value features the checks find
T_A == <<"A">>

\* rows of the reference table of the per-feature pipeline: two enabled rows
\* on one feature class, one with a definition query and a buffer, and a
\* row that is switched off
RowListed  == RefRow("Listed", <<"Y">>, "fcHeritage", T_Where, T_PRESENT, 100)
RowCounted == RefRow("Counted", <<"y">>, "fcHeritage", <<" ">>, T_COUNT, 0)

PipelineTables ==
    { <<RowListed>>, <<RowListed, RowCounted>>, <<RowCounted, RowListed>>,
      <<RowOff, RowListed>>, <<RowCounted, RowOff>> }

RECURSIVE SortedIds(_)
\* the elements of a set of numbers in ascending order
SortedIds(ids) ==
    IF ids = {} THEN <<>>
    ELSE LET least == CHOOSE x \in ids : \A y \in ids : x <= y
         IN  <<least>> \o SortedIds(ids \ {least})

\* _get_unique_features 674-684: the ids of the input features, each once, sorted
FeatureList == SortedIds({ works[i] : i \in 1..Len(works) })

\* 470 and 496: "query and len(query.strip()) > 1"
HasQuery(query) == query # <<>> /\ Len(Strip(query)) > 1

\* ApplyQuery that leaves the selection of the layer as it is
ApplyQueryKeep(sel, layer, query) == sel

\* 470-475 and 496-501: SelectLayerByAttribute NEW_SELECTION with the
\* definition query, or CLEAR_SELECTION
ApplyQuery(sel, layer, query) ==
    [sel EXCEPT ![layer] = IF HasQuery(query) THEN Selected(QuerySelection(query))
                           ELSE NoSelection]

\* SelectLayerByLocation INTERSECT with SUBSET_SELECTION (165, 212): of the
\* selected features, or of all when there is no selection, those that
\* intersect the input feature stay selected; hit are the intersecting ones
SelectByLocation(sel, layer, hit) ==
    [sel EXCEPT ![layer] = Selected((IF @.active THEN @.ids ELSE ValueFeatures) \cap hit)]

\* clear_layer_selections 151-157
ClearLayerSelections(sel) == [layer \in DOMAIN sel |-> NoSelection]

\* the result list of a check that found nothing or raised: [[]]
NilResults == << <<>> >>

\* where a check function raises, if it does: at Describe (161, 209), before
\* its spatial selection, or at the cursor (181, 227), after it
FailPoints == {"none", "describe", "cursor"}

\* get_values_present 159-204 and get_values_count 206-250 on a layer whose
\* selected features intersecting the input all hold the value 'A': the
\* results and the selection the layer is left with. A check that raises
\* returns [[]] from its except clause
CheckFunc(sel, layer, method, hit, fails) ==
    LET after == SelectByLocation(sel, layer, hit)
        n     == Cardinality(after[layer].ids)
    IN  IF fails = "describe" THEN [results |-> NilResults, sel |-> sel]
        ELSE IF fails = "cursor" \/ n = 0 THEN [results |-> NilResults, sel |-> after]
        ELSE IF Upper(method) = T_PRESENT
        THEN [results |-> << <<PyStr(T_A)>> >>, sel |-> after]
        ELSE [results |-> << <<PyStr(T_A), PyInt(n)>> >>, sel |-> after]

\* "if item": the truth value of a str or int
Truthy(v) == IF v.kind = "int" THEN v.n # 0 ELSE v.s # <<>>

RECURSIVE CleanedItems(_)
\* 384-385 and 402-403: the items of value_list as text with ';' for ',',
\* without the empty, blank and 'None' ones
CleanedItems(value_list) ==
    IF value_list = <<>> THEN <<>>
    ELSE LET item == Head(value_list)
             keep == /\ Truthy(item)
                     /\ Strip(Str(item)) # <<>>
                     /\ Str(item) # <<"N", "o", "n", "e">>
         IN  (IF keep THEN << Replace(Str(item), ",", <<";">>) >> ELSE <<>>)
             \o CleanedItems(Tail(value_list))

\* format_presence_output 378-394
FormatPresenceOutput(value_list) ==
    LET cleaned == CleanedItems(value_list)
    IN  IF value_list = <<>> \/ cleaned = <<>> THEN <<>>
        ELSE IF Len(cleaned) = 1 THEN cleaned[1]
        ELSE FirstAndRest(cleaned[1], Tail(cleaned))

\* format_measure_output 396-416
FormatMeasureOutput(value_list) ==
    LET cleaned == CleanedItems(value_list)
        n       == Len(cleaned)
    IN  IF value_list = <<>> \/ cleaned = <<>> THEN <<>>
        ELSE IF n = 2 THEN cleaned[1] \o <<" ", "-", " ">> \o cleaned[2]
        ELSE IF n > 2
        THEN FirstAndRest(cleaned[1], SubSeq(cleaned, 2, n - 1))
             \o <<" ", "-", " ">> \o cleaned[n]
        ELSE cleaned[1]

\* get_method_functions 418-427: the format function of a method, applied
FormatFunc(method, value_list) ==
    IF Upper(method) = T_PRESENT THEN FormatPresenceOutput(value_list)
    ELSE FormatMeasureOutput(value_list)

T_NilFeatures ==
    <<",", "=", "\"", "N", "i", "l", " ", "f", "e", "a", "t", "u", "r", "e", "s", "\"">>
T_CellOpen == <<",", "=", "\"">>
T_Quote == <<"\"">>
T_AndLine == <<"&", " ", "C", "H", "A", "R", "(", "1", "0", ")", " ", "&", " ", "\"">>
T_WithinBuffer ==
    <<" ", "C", "H", "A", "R", "(", "1", "0", ")", " ", "&", " ", "\"", "W", "i", "t",
      "h", "i", "n", " ", "B", "u", "f", "f", "e", "r", " ", "A", "r", "e", "a", " ", "(">>
T_BufferNil ==
    <<"m", ")", ":", " ", "N", "i", "l", " ", "f", "e", "a", "t", "u", "r", "e", "s", "\"">>
T_BufferRows == <<"m", ")", ":", "\"">>

\* "not results or (len(results) == 1 and not results[0])"
IsNil(results) == results = <<>> \/ (Len(results) = 1 /\ results[1] = <<>>)

RECURSIVE Formatted(_, _)
\* the non-empty formatted rows of a result list
Formatted(method, results) ==
    IF results = <<>> THEN <<>>
    ELSE (IF FormatFunc(method, Head(results)) # <<>>
          THEN << FormatFunc(method, Head(results)) >> ELSE <<>>)
         \o Formatted(method, Tail(results))

RECURSIVE Quoted(_, _)
\* the texts ss, each after the text before and closed with a quote
Quoted(before, ss) ==
    IF ss = <<>> THEN <<>>
    ELSE before \o Head(ss) \o T_Quote \o Quoted(before, Tail(ss))

\* _write_results 521-542: what is written for the results of the polygon
WriteResults(results, method) ==
    IF IsNil(results) THEN T_NilFeatures
    ELSE IF Len(results) = 1
    THEN T_CellOpen \o FormatFunc(method, results[1]) \o T_Quote
    ELSE LET formatted_results == Formatted(method, results)
         IN  IF formatted_results # <<>>
             THEN T_CellOpen \o formatted_results[1] \o T_Quote
                  \o Quoted(T_AndLine, Tail(formatted_results))
             ELSE T_NilFeatures

\* _process_buffer 555-572: what is written for the results of the buffer
WriteBuffer(main_results, buffer_results, buffer_dist, method) ==
    LET prefix == IF ~IsNil(main_results)
                  THEN <<" ", "&", " ", "C", "H", "A", "R", "(", "1", "0", ")", " ", "&">>
                  ELSE <<"&">>
    IN  IF IsNil(buffer_results)
        THEN prefix \o T_WithinBuffer \o StrNat(buffer_dist) \o T_BufferNil
        ELSE prefix \o T_WithinBuffer \o StrNat(buffer_dist) \o T_BufferRows
             \o Quoted(<<" ">> \o T_AndLine, Formatted(method, buffer_results))

\* ErrorMarker without the end of the line
ErrorMarkerNoNewline ==
    <<",", "E", "r", "r", "o", "r", " ", "o", "c", "c", "u", "r", "r", "e", "d">>

\* 516: output_file.write(",Error occurred\n")
ErrorMarker ==
    <<",", "E", "r", "r", "o", "r", " ", "o", "c", "c", "u", "r", "r", "e", "d", "\n">>

\* the variables of the run of V3 the per-feature pipeline does not touch
v3only == <<config, loc, layer_name, values_cache, buffer_cache, reftab_dict, output_dict,
            output_ids, progress, csv, csv_open, raised, calls, joined, call_status>>

\* 429-448: the next feature of the list; its name is written
ProcessFeatureStart ==
    /\ pc = "feature"
    /\ idx <= Len(FeatureList)
    /\ counter' = counter + 1
    /\ output_file' = output_file \o StrNat(FeatureList[idx])
    /\ pc' = "theme"
    /\ theme_pos' = 1
    /\ checks' = <<>>
    /\ UNCHANGED <<v3only, reftable, works, idx, perf_log, budget, selection, trunc_attrs>>

\* one iteration of the cursor loop 458-503 that does not raise: a row that
\* is switched off is skipped; for an enabled row the selection is set, the
\* polygon is checked and written and, with a buffer distance, the selection
\* is set again and the buffer is checked and written. A check that raises
\* logs and returns [[]]
ProcessFeatureTheme ==
    /\ pc = "theme"
    /\ theme_pos <= Len(reftable)
    /\ LET row   == reftable[theme_pos]
           layer == row.fc_name
       IN  IF Upper(row.requires_check) # <<"Y">>
           THEN UNCHANGED <<output_file, selection, checks, perf_log, budget>>
           ELSE \E hit_poly, hit_buff \in SUBSET ValueFeatures :
                \E fails_poly, fails_buff \in FailPoints :
                  LET sel1 == ApplyQuery(selection, layer, row.query)
                      poly == CheckFunc(sel1, layer, row.method, hit_poly, fails_poly)
                      sel2 == ApplyQuery(poly.sel, layer, row.query)
                      buff == CheckFunc(sel2, layer, row.method, hit_buff, fails_buff)
                      chk(sel, l) == [fc |-> layer, query |-> row.query, loc |-> l,
                                      selection |-> sel[layer]]
                      logged(log, fails) ==
                          IF fails # "none" THEN LogError(log, "get_values", layer) ELSE log
                      failed == (IF fails_poly # "none" THEN 1 ELSE 0)
                                + (IF fails_buff # "none" THEN 1 ELSE 0)
                  IN  /\ failed <= budget.faults
                      /\ budget' = [budget EXCEPT !.faults = @ - failed]
                      /\ perf_log' = logged(logged(perf_log, fails_poly), fails_buff)
                      /\ IF row.buffer_distance > 0
                         THEN /\ output_file' = output_file
                                    \o WriteResults(poly.results, row.method)
                                    \o WriteBuffer(poly.results, buff.results,
                                                   row.buffer_distance, row.method)
                              /\ selection' = buff.sel
                              /\ checks' = <<chk(sel1, "polygon"), chk(sel2, "buffer")>>
                         ELSE /\ hit_buff = {}
                              /\ fails_buff = "none"
                              /\ output_file' = output_file
                                    \o WriteResults(poly.results, row.method)
                              /\ selection' = poly.sel
                              /\ checks' = <<chk(sel1, "polygon")>>
    /\ theme_pos' = theme_pos + 1
    /\ UNCHANGED <<v3only, reftable, works, pc, idx, counter, trunc_attrs>>

\* a call of process_feature itself raises (448, 457, 472, 475 before the
\* polygon of the row is checked; 493, 498, 501 after it is written): the
\* except clause 514-516 logs and writes the marker, the finally clause
\* clears the selections, and run() goes on with the next feature
ProcessFeatureError ==
    /\ pc = "theme"
    /\ budget.faults > 0
    /\ budget' = [budget EXCEPT !.faults = @ - 1]
    /\ \E late \in BOOLEAN : \E hit \in SUBSET ValueFeatures :
          LET row  == reftable[theme_pos]
              poly == CheckFunc(ApplyQuery(selection, row.fc_name, row.query),
                                row.fc_name, row.method, hit, "none")
          IN  IF late
              THEN /\ theme_pos <= Len(reftable)
                   /\ Upper(row.requires_check) = <<"Y">>
                   /\ row.buffer_distance > 0
                   /\ output_file' = output_file \o WriteResults(poly.results, row.method)
                                                 \o ErrorMarker
                   /\ checks' = << [fc |-> row.fc_name, query |-> row.query,
                                    loc |-> "polygon",
                                    selection |-> ApplyQuery(selection, row.fc_name,
                                                             row.query)[row.fc_name]] >>
              ELSE /\ hit = {}
                   /\ output_file' = output_file \o ErrorMarker
                   /\ UNCHANGED checks
    /\ perf_log' = LogError(perf_log, "process_feature", FeatureList[idx])
    /\ selection' = ClearLayerSelections(selection)
    /\ idx' = idx + 1
    /\ pc' = "feature"
    /\ UNCHANGED <<v3only, reftable, works, counter, theme_pos, trunc_attrs>>

\* 505-512 and 519: the cursor is exhausted, the row is finished and the
\* selections are cleared (every 100 features a second time)
ProcessFeatureEnd ==
    /\ pc = "theme"
    /\ theme_pos > Len(reftable)
    /\ output_file' = output_file \o <<"\n">>
    /\ selection' = ClearLayerSelections(selection)
    /\ idx' = idx + 1
    /\ pc' = "feature"
    /\ UNCHANGED <<v3only, reftable, works, counter, theme_pos, checks, perf_log,
                   budget, trunc_attrs>>

\* 651-655: the loop over feature_list is exhausted
FeaturesDone ==
    /\ pc = "feature"
    /\ idx > Len(FeatureList)
    /\ pc' = "features_done"
    /\ UNCHANGED <<v3only, reftable, works, idx, counter, theme_pos, output_file,
                   selection, checks, perf_log, budget, trunc_attrs>>

InitPipeline ==
    /\ PipelineIdle
    /\ config = ValidConfig
    /\ reftable \in PipelineTables
    /\ works \in WorksLists
    /\ pc = "feature"
    /\ idx = 1
    /\ loc = "none"
    /\ layer_name = UnboundLayer
    /\ values_cache = <<>>
    /\ buffer_cache = {}
    /\ reftab_dict = <<>>
    /\ output_dict = <<>>
    /\ output_ids = <<>>
    /\ progress = 1
    /\ csv = <<>>
    /\ csv_open = TRUE
    /\ perf_log = <<>>
    /\ raised = FALSE
    /\ calls = <<>>
    /\ joined = [fc \in FcNames |-> [l \in Locations |-> [f \in FeatureIds |-> NoRecords]]]
    /\ call_status = [fc \in FcNames |-> [l \in Locations |-> "none"]]
    /\ budget = [recs |-> 0, faults |-> MaxFaults]

NextPipeline ==
    \/ ProcessFeatureStart
    \/ ProcessFeatureTheme
    \/ ProcessFeatureError
    \/ ProcessFeatureEnd
    \/ FeaturesDone

SpecPipeline == InitPipeline /\ [][NextPipeline]_vars

-----------------------------------------------------------------------------
(* Properties of the aggregation, on SpecEngine *)

\* the entries of reftab_dict whose method is m (upper case)
ThemesOf(m) ==
    { reftab_dict[i] : i \in { k \in 1..Len(reftab_dict) : Upper(reftab_dict[k].method) = m } }

RECURSIVE SumAcc(_)
\* the sum of the trailing accumulators of the rows of a bucket
SumAcc(bucket) ==
    IF bucket = <<>> THEN 0
    ELSE Head(bucket)[Len(Head(bucket))] + SumAcc(Tail(bucket))

\* the distinct cleaned attribute tuples of the records yielded for a bucket
CleanSeen(fc_name, location, f) ==
    { CleanFields(t) : t \in joined[fc_name][location][f].seen }

NoTwoEqual(seq) == \A x, y \in 1..Len(seq) : x # y => seq[x] # seq[y]

\* C1: for a PRESENT theme no (feature, theme, location) bucket ever holds two
\* rows with the same cleaned attribute tuple, and it holds exactly one row per
\* distinct cleaned tuple the join has yielded for it: a record whose tuple is
\* already in the bucket adds nothing.
C1_PresentNoDuplicates ==
    \A e \in ThemesOf(T_PRESENT) : \A f \in DOMAIN output_dict : \A l \in Locations :
        LET bucket == output_dict[f][e.theme_name][l]
        IN  /\ NoTwoEqual(bucket)
            /\ Len(bucket) = Cardinality(CleanSeen(e.fc_name, l, f))

\* three records were joined to one feature, two of them with the same tuple:
\* the bucket holds two rows
C1_Witness ==
    \E e \in ThemesOf(T_PRESENT) : \E f \in DOMAIN output_dict :
        /\ joined[e.fc_name]["in_polygon"][f].n = 3
        /\ output_dict[f][e.theme_name]["in_polygon"] = << << <<"A">> >>, << <<"B">> >> >>

\* the cell data_to_csv wrote for feature f and the theme of entry e
CsvCell(f, e) ==
    LET k == CHOOSE k \in 2..Len(csv) : csv[k].id = f
        c == CHOOSE c \in 1..Len(csv[1].cells) : csv[1].cells[c] = e.theme_name
    IN  csv[k].cells[c]

\* C2: for a COUNT theme the counters of the rows of a bucket sum to the number
\* of joined records of that feature; when all these records share one
\* attribute value v the bucket is the single row [v, n], and the cell written
\* for a theme without buffer is 'In polygon:' CRLF 'v - n'.
C2_CountSum ==
    \A e \in ThemesOf(T_COUNT) : \A f \in DOMAIN output_dict : \A l \in Locations :
        LET bucket == output_dict[f][e.theme_name][l]
            n      == joined[e.fc_name][l][f].n
            keys   == CleanSeen(e.fc_name, l, f)
        IN  /\ SumAcc(bucket) = n
            /\ \A v \in { <<"A">>, <<"B">> } :
                  keys = { <<v>> } =>
                     /\ bucket = << <<v, n>> >>
                     /\ (pc = "done" /\ l = "in_polygon" /\ e.buffer_distance = 0) =>
                           CsvCell(f, e) = PyStr(T_InPolygon \o T_CRLF \o v \o
                                                 <<" ", "-", " ">> \o StrNat(n))

\* the example of the specification: three records with one value, rendered
\* 'A - 3'
C2_Witness ==
    /\ pc = "done"
    /\ \E e \in ThemesOf(T_COUNT) : \E f \in DOMAIN output_dict :
          /\ joined[e.fc_name]["in_polygon"][f].n = 3
          /\ CsvCell(f, e) = PyStr(T_InPolygon \o T_CRLF \o <<"A", " ", "-", " ", "3">>)

\* C3: for a MEASURE theme on a polygon (polyline) layer the accumulators of
\* the rows of a bucket sum to the summed area / 10000 (length / 1000) of the
\* joined records of that feature; two records of 20000 and 30000 square metres
\* with one attribute key give one row, rendered '<key> - 5.0ha'.
\* Accumulators are hundredths of a hectare (100 m2) or of a kilometre (10 m).
C3_MeasureSum ==
    \A e \in ThemesOf(T_MEASURE) : \A f \in DOMAIN output_dict : \A l \in Locations :
        LET bucket == output_dict[f][e.theme_name][l]
            j      == joined[e.fc_name][l][f]
        IN  /\ e.geometry_type = "POLYGON"  => SumAcc(bucket) * 100 = j.area
            /\ e.geometry_type = "POLYLINE" => SumAcc(bucket) * 10 = j.length
            /\ (/\ pc = "done"
                /\ e.geometry_type = "POLYGON"
                /\ l = "in_polygon"
                /\ j.n = 2
                /\ j.area = 50000
                /\ CleanSeen(e.fc_name, l, f) = { << <<"A">> >> }
                /\ output_dict[f][e.theme_name]["in_buffer"] = <<>>)
               => CsvCell(f, e) =
                     PyStr(T_InPolygon \o T_CRLF \o
                           <<"A", " ", "-", " ", "5", ".", "0", "h", "a">> \o T_CRLF \o
                           <<"I", "n", " ", "1", "0", "0", "m", " ", "b", "u", "f", "f",
                             "e", "r", ":", " ", "N", "i", "l">>)

\* the example of the specification: 20000 and 30000 square metres under one
\* key
C3_Witness ==
    /\ pc = "done"
    /\ \E e \in ThemesOf(T_MEASURE) : \E f \in DOMAIN output_dict :
             /\ e.geometry_type = "POLYGON"
             /\ joined[e.fc_name]["in_polygon"][f].n = 2
             /\ output_dict[f][e.theme_name]["in_polygon"] = << << <<"A">>, 500 >> >>
             /\ output_dict[f][e.theme_name]["in_buffer"] = <<>>

\* C4: for COUNT and MEASURE themes every bucket holds at most one row per
\* attribute key, one for each distinct cleaned tuple the join has yielded:
\* a record appends a row for a new key or updates the row of its key.
C4_UniqueKeys ==
    \A e \in ThemesOf(T_COUNT) \cup ThemesOf(T_MEASURE) :
      \A f \in DOMAIN output_dict : \A l \in Locations :
        LET bucket == output_dict[f][e.theme_name][l]
        IN  /\ \A x, y \in 1..Len(bucket) : x # y => Key(bucket[x]) # Key(bucket[y])
            /\ { Key(bucket[x]) : x \in 1..Len(bucket) } = CleanSeen(e.fc_name, l, f)

\* three records of two keys: two rows, one of them updated
C4_Witness ==
    \E e \in ThemesOf(T_MEASURE) : \E f \in DOMAIN output_dict :
        LET bucket == output_dict[f][e.theme_name]["in_buffer"]
        IN  /\ joined[e.fc_name]["in_buffer"][f].n = 3
            /\ Len(bucket) = 2
            /\ Key(bucket[1]) # Key(bucket[2])

-----------------------------------------------------------------------------
(* Properties of the cell text, on SpecEngine *)

StartsWith(t, prefix) ==
    Len(t) >= Len(prefix) /\ SubSeq(t, 1, Len(prefix)) = prefix

Contains(t, part) ==
    \E i \in 1..(Len(t) - Len(part) + 1) : SubSeq(t, i, i + Len(part) - 1) = part

T_mBuffer == <<"m", " ", "b", "u", "f", "f", "e", "r", ":">>

T_InPolygonNil == T_InPolygon \o <<" ">> \o T_Nil

\* in_buffer lists a caller could pass for a theme of method m (upper case)
BufferLists(m) ==
    IF m = T_PRESENT THEN { <<>>, << << <<"A">> >> >> }
    ELSE { <<>>, << << <<"A">>, 1 >> >> }

\* C5: _results_to_string gives a text without an 'In ...m buffer:' section for
\* a theme with buffer_distance = 0 whatever in_buffer list it is passed, and
\* for an empty in_polygon list it gives a text whose polygon section is
\* exactly 'In polygon: Nil': the whole text, or the text up to the line break
\* before the buffer section.
C5_NilAndUnbufferedSections ==
    \A i \in 1..Len(reftab_dict) : \A f \in DOMAIN output_dict :
        LET e    == reftab_dict[i]
            poly == output_dict[f][e.theme_name]["in_polygon"]
            buff == output_dict[f][e.theme_name]["in_buffer"]
            cell == ResultsToString(poly, buff, e.method, e.buffer_distance,
                                    e.geometry_type)
        IN  /\ e.buffer_distance = 0 =>
                  \A lb \in BufferLists(Upper(e.method)) \cup {buff} :
                     LET c == ResultsToString(poly, lb, e.method, 0, e.geometry_type)
                     IN  c.kind = "str" => ~Contains(c.s, T_mBuffer)
            /\ poly = <<>> =>
                  /\ cell.kind = "str"
                  /\ \/ cell.s = T_InPolygonNil
                     \/ StartsWith(cell.s, T_InPolygonNil \o T_CRLF \o <<"I", "n", " ">>)

-----------------------------------------------------------------------------
(* Properties of a run, on Spec *)

\* how often _process_spatial_intersection was entered for (fc_name, location)
Invocations(fc_name, location) ==
    Cardinality({ i \in 1..Len(calls) :
                     /\ calls[i].op = "_process_spatial_intersection"
                     /\ calls[i].fc = fc_name
                     /\ calls[i].loc = location })

\* an error of the given step was logged
Logged(step) == \E i \in 1..Len(perf_log) : perf_log[i].step = step

\* an error of the given step was logged about fc_name
LoggedFor(step, fc_name) ==
    \E i \in 1..Len(perf_log) : perf_log[i].step = step /\ perf_log[i].fc = fc_name

\* the enabled rows of the reference table
EnabledRows == { reftable[k] : k \in { j \in 1..Len(reftable) : RequiresCheck(reftable[j]) } }

Finished == pc \in {"csv", "done"}

CreatedIds == { output_ids[k] : k \in 1..Len(output_ids) }

BeforeFirstIntersection == pc = "intersect" /\ idx = 1

C8_FailedPairEmpty ==
    pc = "done" =>
       \A i \in 1..Len(reftab_dict) : \A l \in Locations :
          LET e == reftab_dict[i]
          IN  call_status[e.fc_name][l] = "failed" =>
                 /\ LoggedFor("_process_spatial_intersection", e.fc_name)
                 /\ \A f \in DOMAIN output_dict : output_dict[f][e.theme_name][l] = <<>>

\* an error was logged about the value layer fc_name
ValueLayerFailed(fc_name) ==
    \/ LoggedFor("load_values_fcs", fc_name)
    \/ LoggedFor("_process_spatial_intersection", fc_name)

\* every logged error is an error on a value layer
OnlyValueLayerErrors ==
    \A i \in 1..Len(perf_log) :
        perf_log[i].step \in {"load_values_fcs", "_process_spatial_intersection"}

\* the header of the report names the theme
IsColumn(theme_name) ==
    /\ csv # <<>>
    /\ \E c \in 1..Len(csv[1].cells) : csv[1].cells[c] = theme_name

\* the cell of a theme without result
NilCells(buffer_distance) ==
    IF buffer_distance > 0
    THEN { PyStr(T_InPolygonNil \o T_CRLF \o BufferLabel(buffer_distance) \o
                 <<" ">> \o T_Nil) }
    ELSE { PyStr(T_InPolygonNil) }

\* C9: when a run in which only value layers failed has ended, every enabled
\* theme without error is loaded, was intersected with the base layer and is a
\* column of the report, and every cell of a failing theme that is a column
\* is the Nil cell.
C9_ValueLayerErrorLocal ==
    (pc = "done" /\ OnlyValueLayerErrors) =>
       \A row \in EnabledRows :
          IF ValueLayerFailed(row.fc_name)
          THEN IsColumn(row.theme_name) =>
                  \A k \in 2..Len(csv) :
                     \A c \in 1..Len(csv[1].cells) :
                        csv[1].cells[c] = row.theme_name =>
                           csv[k].cells[c] \in NilCells(row.buffer_distance)
          ELSE /\ RefIndex(reftab_dict, row.fc_name) # 0
               /\ Invocations(row.fc_name, "in_polygon") = 1
               /\ IsColumn(row.theme_name)

\* the Buffer call of load_and_buffer_works_fc raised
BufferFailed == Logged("load_and_buffer_works_fc:Buffer")

\* Buffer calls made for the distance d
BufferCalls(d) ==
    Cardinality({ i \in 1..Len(calls) : calls[i].op = "Buffer" /\ calls[i].dist = d })

-----------------------------------------------------------------------------
(* Properties of the program started from __main__, on SpecMain *)

\* C11: with a configuration error (the input dataset, the reference table or
\* the base data location does not exist, or the input dataset lacks the ID
\* field) no layer is ever cached, no geoprocessing call or intersection is
\* made, no report row is written, and the program ends by raising.
C11_ConfigErrorFatal ==
    config # ValidConfig =>
       /\ values_cache = <<>>
       /\ buffer_cache = {}
       /\ calls = <<>>
       /\ csv = <<>>
       /\ pc \in {"done", "aborted"} => raised

-----------------------------------------------------------------------------
(* Properties of the report, on Spec *)

\* the FEATURE_ID values of the data rows of the report, in file order
DataRowIds == [k \in 1..(Len(csv) - 1) |-> csv[k + 1].id]

\* C12: the report written by a run that logged no error has exactly one data
\* row per distinct feature ID of the input dataset, and the data rows are in
\* ascending feature-ID order.
C12_OneRowPerFeatureAscending ==
    (pc = "done" /\ perf_log = <<>>) =>
       /\ { DataRowIds[k] : k \in 1..Len(DataRowIds) } = { works[i] : i \in 1..Len(works) }
       /\ NoTwoEqual(DataRowIds)
       /\ \A k \in 1..(Len(DataRowIds) - 1) : DataRowIds[k] < DataRowIds[k + 1]

\* the theme names of the enabled rows of the reference table, in table order
RECURSIVE EnabledThemes(_)
EnabledThemes(rows) ==
    IF rows = <<>> THEN <<>>
    ELSE (IF RequiresCheck(Head(rows)) THEN <<Head(rows).theme_name>> ELSE <<>>)
         \o EnabledThemes(Tail(rows))

\* C13: when a run that met no error before report writing has ended, the
\* first row of the report is the header [ID field name, theme name of each
\* enabled theme], also for an input dataset without features, and every data
\* row has one cell per theme of the header.
C13_HeaderAlwaysWritten ==
    (pc = "done" /\ \A i \in 1..Len(perf_log) : perf_log[i].step = "data_to_csv") =>
       /\ csv # <<>>
       /\ csv[1] = [id |-> FEATURE_ID, cells |-> EnabledThemes(reftable)]
       /\ \A k \in 2..Len(csv) : Len(csv[k].cells) = Len(csv[1].cells)

RECURSIVE ReplayRecords(_, _, _)
\* the bucket a second run builds from the empty list when its cursor yields
\* the records recs of the theme of row in the same order
ReplayRecords(recs, bucket, row) ==
    IF recs = <<>> THEN bucket
    ELSE LET od0 == [x \in {0} |-> [t \in {row.theme_name} |->
                        [in_polygon |-> bucket, in_buffer |-> <<>>]]]
             r   == ProcessRow(od0, row.method, UpperShape(FcShapeType(row.fc_name)),
                               row.theme_name, "in_polygon", [Head(recs) EXCEPT !.id = 0])
         IN  ReplayRecords(Tail(recs), r.od[0][row.theme_name]["in_polygon"], row)

\* the report as a function of the inputs of a run alone: the rows of the
\* reference table, the subject features, and the joined records in the order
\* the cursors yielded them
ReportOfInputs ==
    LET rows == SelectSeq(reftable, RequiresCheck)
        cell(f, row) ==
            ResultsToString(
                ReplayRecords(joined[row.fc_name]["in_polygon"][f].recs, <<>>, row),
                ReplayRecords(joined[row.fc_name]["in_buffer"][f].recs, <<>>, row),
                row.method, row.buffer_distance, UpperShape(FcShapeType(row.fc_name)))
    IN  <<[id |-> FEATURE_ID, cells |-> EnabledThemes(reftable)]>> \o
        [k \in 1..Len(works) |->
            [id    |-> works[k],
             cells |-> [c \in 1..Len(rows) |-> cell(works[k], rows[c])]]]

-----------------------------------------------------------------------------
(* Properties of the caches, on SpecCache *)

\* MakeFeatureLayer calls made for the dataset fc_name ("works": the input)
MakeLayerCalls(fc_name) ==
    Cardinality({ i \in 1..Len(calls) :
                     calls[i].op = "MakeFeatureLayer" /\ calls[i].fc = fc_name })

\* the buffer distances of the rows of the model
Distances == { r.buffer_distance : r \in RefRows \cup EngineRows \cup CacheRows }

-----------------------------------------------------------------------------
(* Properties of the resources of a run, on Spec *)

\* self.perf_log, opened at line 51: no statement of the program closes it
PerfLogOpen == TRUE

\* the in-memory layers the run holds: nothing is ever removed from the caches
\* and no layer is deleted
LayersHeld == DOMAIN values_cache \cup buffer_cache

\* C16: when the run has ended, on whatever path, the CSV file and the
\* performance log are closed and no temporary layer is held any more.
C16_ResourcesReleased ==
    pc = "done" =>
       /\ ~csv_open
       /\ ~PerfLogOpen
       /\ LayersHeld = {}

-----------------------------------------------------------------------------
(* Properties of the rendered rows, on SpecFormat *)

\* first position of part in t, 0 if there is none
IndexOf(t, part) ==
    IF Contains(t, part)
    THEN CHOOSE i \in 1..(Len(t) - Len(part) + 1) :
            /\ SubSeq(t, i, i + Len(part) - 1) = part
            /\ \A j \in 1..(i - 1) : SubSeq(t, j, j + Len(part) - 1) # part
    ELSE 0

RECURSIVE SplitLines(_)
\* the lines of a text, split at every CRLF
SplitLines(t) ==
    LET i == IndexOf(t, T_CRLF)
    IN  IF i = 0 THEN <<t>>
        ELSE <<SubSeq(t, 1, i - 1)>> \o SplitLines(SubSeq(t, i + 2, Len(t)))

\* what follows the label of the section of location l in the cell text t of
\* a theme with buffer distance d, up to the next section: the separator (a
\* space or a line break) and the rows
AfterLabel(t, l, d) ==
    LET cut  == IF d > 0 THEN IndexOf(t, T_CRLF \o BufferLabel(d)) ELSE 0
        poly == SubSeq(t, Len(T_InPolygon) + 1, IF cut = 0 THEN Len(t) ELSE cut - 1)
        buff == SubSeq(t, cut + 2 + Len(BufferLabel(d)), Len(t))
    IN  IF l = "in_polygon" THEN poly ELSE buff

\* the separator after the label: " " or CRLF
Separator(t, l, d) ==
    LET a == AfterLabel(t, l, d)
    IN  IF StartsWith(a, T_CRLF) THEN T_CRLF ELSE SubSeq(a, 1, 1)

\* the lines of a section after its label and separator
SectionRows(t, l, d) ==
    LET a == AfterLabel(t, l, d)
    IN  SplitLines(SubSeq(a, Len(Separator(t, l, d)) + 1, Len(a)))

\* the locations a theme with buffer distance d has a section for
SectionsOf(d) == IF d > 0 THEN Locations ELSE {"in_polygon"}

\* the cell _results_to_string gives for the buckets of feature f and the
\* theme of entry e as they are now
CellNow(f, e) ==
    ResultsToString(output_dict[f][e.theme_name]["in_polygon"],
                    output_dict[f][e.theme_name]["in_buffer"],
                    e.method, e.buffer_distance, e.geometry_type)

\* 'attr0' or 'attr0 (attr1 | attr2 | ...)' for a list of one to three attributes
AttrText(attrs) ==
    CASE Len(attrs) = 1 -> attrs[1]
      [] Len(attrs) = 2 -> attrs[1] \o <<" ", "(">> \o attrs[2] \o <<")">>
      [] Len(attrs) = 3 -> attrs[1] \o <<" ", "(">> \o attrs[2] \o <<" ", "|", " ">>
                           \o attrs[3] \o <<")">>

\* the number of positions of seq that hold x
Occurrences(seq, x) == Cardinality({ i \in 1..Len(seq) : seq[i] = x })

\* C17: for a PRESENT theme the section of a bucket that holds a non-empty row
\* has one line per row of the bucket, and for every row of one or more
\* attributes the line 'attr0' (one attribute) or 'attr0 (attr1 | attr2 | ...)'
\* (more than one), as often as the bucket holds rows of that text.
C17_PresentRowText ==
    \A e \in ThemesOf(T_PRESENT) : \A f \in DOMAIN output_dict :
      \A l \in SectionsOf(e.buffer_distance) :
        LET bucket == output_dict[f][e.theme_name][l]
            cell   == CellNow(f, e)
            rows   == SectionRows(cell.s, l, e.buffer_distance)
        IN  ~NotAny(bucket) =>
               /\ cell.kind = "str"
               /\ Len(rows) = Len(bucket)
               /\ \A i \in 1..Len(bucket) :
                     bucket[i] # <<>> =>
                        Occurrences(rows, AttrText(bucket[i])) =
                           Cardinality({ j \in 1..Len(bucket) :
                                            bucket[j] # <<>> /\
                                            AttrText(bucket[j]) = AttrText(bucket[i]) })

\* a bucket with a row of one, a row of two and a row of three attributes
C17_Witness ==
    \E e \in ThemesOf(T_PRESENT) : \E f \in DOMAIN output_dict :
        LET bucket == output_dict[f][e.theme_name]["in_polygon"]
        IN  /\ { Len(bucket[i]) : i \in 1..Len(bucket) } = {1, 2, 3}
            /\ CellNow(f, e).kind = "str"
            /\ << <<"A">>, <<"A">>, <<"A">> >> \in { bucket[i] : i \in 1..Len(bucket) }
            /\ Occurrences(SectionRows(CellNow(f, e).s, "in_polygon", e.buffer_distance),
                           <<"A", " ", "(", "A", " ", "|", " ", "A", ")">>) = 1

\* str.endswith
EndsWith(t, suffix) ==
    Len(t) >= Len(suffix) /\ SubSeq(t, Len(t) - Len(suffix) + 1, Len(t)) = suffix

\* the accumulator of a row as the cell shows it: the count, or the measure to
\* one decimal place with 'ha' (polygon) or 'km' (polyline)
AccText(e, acc) ==
    IF Upper(e.method) = T_COUNT THEN StrNat(acc)
    ELSE FormatOneDecimal(acc) \o
         (CASE e.geometry_type = "POLYGON"  -> <<"h", "a">>
            [] e.geometry_type = "POLYLINE" -> <<"k", "m">>
            [] OTHER                        -> <<>>)

\* C18: for a COUNT or MEASURE theme the cell is a text in which the section
\* of a bucket with rows has one line per row: 'attr0 - acc' for a row of one
\* attribute and its accumulator, 'attr0 (attr1 | ...) - acc' for a row of
\* more attributes, and for any other row a line that ends with ' - acc'.
C18_AccumulatorRowText ==
    \A e \in ThemesOf(T_COUNT) \cup ThemesOf(T_MEASURE) : \A f \in DOMAIN output_dict :
      \A l \in SectionsOf(e.buffer_distance) :
        LET bucket == output_dict[f][e.theme_name][l]
            cell   == CellNow(f, e)
            rows   == SectionRows(cell.s, l, e.buffer_distance)
            tail(row) == <<" ", "-", " ">> \o AccText(e, row[Len(row)])
        IN  bucket # <<>> =>
               /\ cell.kind = "str"
               /\ Len(rows) = Len(bucket)
               /\ \A i \in 1..Len(bucket) :
                     IF Len(bucket[i]) > 1
                     THEN \E k \in 1..Len(rows) :
                             rows[k] = AttrText(Key(bucket[i])) \o tail(bucket[i])
                     ELSE \E k \in 1..Len(rows) : EndsWith(rows[k], tail(bucket[i]))

\* the entries of reftab_dict
AllThemes == { reftab_dict[i] : i \in 1..Len(reftab_dict) }

\* the rows of a bucket as the loop over the bucket renders them, in bucket order
RenderedInOrder(e, bucket) ==
    RenderRows(bucket, Upper(e.method), e.geometry_type, Unbound, <<>>)

\* C19: in every section of a cell the rows of a non-empty bucket stand one
\* per line and in ascending order of their text.
C19_SectionRowsAscending ==
    \A e \in AllThemes : \A f \in DOMAIN output_dict :
      \A l \in SectionsOf(e.buffer_distance) :
        LET bucket == output_dict[f][e.theme_name][l]
            cell   == CellNow(f, e)
            rows   == SectionRows(cell.s, l, e.buffer_distance)
        IN  (cell.kind = "str" /\ bucket # <<>>) =>
               /\ Len(rows) = Len(bucket)
               /\ \A i \in 1..(Len(rows) - 1) : ~TextLess(rows[i + 1], rows[i])

\* a section of two or more lines whose rows were rendered in another order
\* than the section shows them
C19_Witness ==
    \E e \in AllThemes : \E f \in DOMAIN output_dict :
        LET bucket == output_dict[f][e.theme_name]["in_polygon"]
            cell   == CellNow(f, e)
            rows   == SectionRows(cell.s, "in_polygon", e.buffer_distance)
            r      == RenderedInOrder(e, bucket)
        IN  /\ cell.kind = "str"
            /\ Len(bucket) >= 2
            /\ ~r.err
            /\ r.output # rows
            /\ TextLess(rows[1], rows[2])

\* C20: in every cell the label of a section is followed by one space and
\* 'Nil' when no row of the bucket has content, and by a line break when the
\* bucket yields rows.
C20_SeparatorByBucket ==
    \A e \in AllThemes : \A f \in DOMAIN output_dict :
      \A l \in SectionsOf(e.buffer_distance) :
        LET bucket == output_dict[f][e.theme_name][l]
            cell   == CellNow(f, e)
        IN  cell.kind = "str" =>
               /\ NotAny(bucket) =>
                     AfterLabel(cell.s, l, e.buffer_distance) = <<" ">> \o T_Nil
               /\ ~NotAny(bucket) =>
                     Separator(cell.s, l, e.buffer_distance) = T_CRLF

-----------------------------------------------------------------------------
(* MEASURE on a point layer, on SpecPoint *)

\* the MEASURE entries of reftab_dict whose layer is neither polygon nor polyline
PointMeasureThemes ==
    { e \in ThemesOf(T_MEASURE) : e.geometry_type \notin {"POLYGON", "POLYLINE"} }

\* the engine is through with the entry e: the loop of run() 87-88 is past it
ThemeDone(e) ==
    \/ pc \in {"csv", "done"}
    \/ pc \in {"intersect", "after_polygon", "rows"} /\ RefIndex(reftab_dict, e.fc_name) < idx

\* C21: when the engine is through with a MEASURE theme on a point layer, it
\* has logged an error about the theme, no bucket of the theme holds a row,
\* and the run has gone on: nothing was raised out of run().
C21_PointMeasureLoggedAndSkipped ==
    \A e \in PointMeasureThemes :
        /\ \A f \in DOMAIN output_dict : \A l \in Locations :
              output_dict[f][e.theme_name][l] = <<>>
        /\ ~raised
        /\ ThemeDone(e) => LoggedFor("_process_spatial_intersection", e.fc_name)

-----------------------------------------------------------------------------
(* The cleaning of the field values, on SpecClean *)

\* the attribute strings of a row of a bucket of the theme e
AttrsOf(e, row) == IF Upper(e.method) = T_PRESENT THEN row ELSE Key(row)

\* the rows of the buckets of the theme e
RowsOf(e) ==
    UNION { { output_dict[f][e.theme_name][l][i] :
                 i \in 1..Len(output_dict[f][e.theme_name][l]) } :
            f \in DOMAIN output_dict, l \in Locations }

\* the attribute strings stored in the buckets of output_dict
StoredAttrs ==
    UNION { UNION { { AttrsOf(e, row)[k] : k \in 1..Len(AttrsOf(e, row)) } :
                    row \in RowsOf(e) } :
            e \in AllThemes }

\* the field values of the joined records the cursors have yielded
YieldedValues ==
    UNION { UNION { { joined[fc][l][f].recs[i].fields[k] :
                         k \in 1..Len(joined[fc][l][f].recs[i].fields) } :
                    i \in 1..Len(joined[fc][l][f].recs) } :
            fc \in FcNames, l \in Locations, f \in FeatureIds }

\* a field value as text, without leading and trailing blanks (a date as
\* year-month-day), the apostrophes removed, ';' for ',' and '_n' for a newline
Cleaned(v) ==
    Replace(Replace(Replace(IF v.kind = "date" THEN Strftime(v) ELSE Strip(Str(v)),
                            "'", <<>>), ",", <<";">>), "\n", <<"_", "n">>)

Ellipsis == <<".", ".", ".">>

\* C23: every attribute string in a bucket is non-empty, is none of 'none',
\* 'null', 'nan' in any letter case, holds no apostrophe, comma or newline and
\* is at most MAX_STRING_LEN long; a cleaned value longer than MAX_STRING_LEN
\* is stored as its first MAX_STRING_LEN - 3 characters followed by '...'.
C23_StoredAttributesClean ==
    /\ \A a \in StoredAttrs :
          /\ a # <<>>
          /\ Lower(a) \notin { <<"n", "o", "n", "e">>, <<"n", "u", "l", "l">>, <<"n", "a", "n">> }
          /\ \A i \in 1..Len(a) : a[i] \notin {"'", ",", "\n"}
          /\ Len(a) <= MAX_STRING_LEN
    /\ \A v \in YieldedValues :
          Len(Cleaned(v)) > MAX_STRING_LEN =>
             /\ SubSeq(Cleaned(v), 1, MAX_STRING_LEN - 3) \o Ellipsis \in StoredAttrs
             /\ Cleaned(v) \notin StoredAttrs

\* a bucket holds a text that had a comma and a newline replaced and was cut
\* to MAX_STRING_LEN after that, and a record held a no-value word with an apostrophe in it
C23_Witness ==
    /\ Rep("x", MAX_STRING_LEN - 4) \o <<";">> \o Ellipsis \in StoredAttrs
    /\ PyStr(<<"n", "'", "o", "n", "e">>) \in YieldedValues
    /\ Cardinality(StoredAttrs) = 1

-----------------------------------------------------------------------------
(* Properties of reftab_dict, on SpecCache *)

\* the positions of the rows of the reference table whose CHECK_YN is 'Y' or 'y'
EnabledPositions == { k \in 1..Len(reftable) : Upper(reftable[k].requires_check) = <<"Y">> }

\* the positions of reftab_dict that hold the theme of row
EntriesOf(row) ==
    { i \in 1..Len(reftab_dict) :
         /\ reftab_dict[i].theme_name = row.theme_name
         /\ reftab_dict[i].fc_name = row.fc_name
         /\ reftab_dict[i].method = row.method }

\* C24: after load_values_fcs reftab_dict holds exactly one entry for each
\* enabled row of the reference table and none for another row, and the
\* header of the report has one column per enabled row.
C24_OneEntryPerEnabledRow ==
    pc # "load_values" =>
       /\ Len(reftab_dict) = Cardinality(EnabledPositions)
       /\ \A k \in 1..Len(reftable) :
             Cardinality(EntriesOf(reftable[k])) = (IF k \in EnabledPositions THEN 1 ELSE 0)
       /\ pc = "done" /\ csv # <<>> => Len(csv[1].cells) = Cardinality(EnabledPositions)

\* C25: the cached_fc of every entry of reftab_dict is the layer that was made
\* from the feature class of the entry.
C25_CachedLayerOfOwnSource ==
    \A i \in 1..Len(reftab_dict) :
        /\ reftab_dict[i].cached_fc = values_cache[reftab_dict[i].fc_name]
        /\ reftab_dict[i].cached_fc.layer_of = reftab_dict[i].fc_name

-----------------------------------------------------------------------------
(* The frame of the engine, on Spec *)

\* C26: a step of the engine on the joined records of the call for the theme
\* of reftab_dict[idx] and the location loc leaves the feature ids and the
\* theme names of output_dict as they are, and changes no bucket of another
\* theme or of the other location.
C26_OnlyOwnBucketChanges ==
    [][ pc = "rows" =>
          /\ DOMAIN output_dict' = DOMAIN output_dict
          /\ \A f \in DOMAIN output_dict :
                /\ DOMAIN output_dict'[f] = DOMAIN output_dict[f]
                /\ \A t \in DOMAIN output_dict[f] : \A l \in Locations :
                      (t # reftab_dict[idx].theme_name \/ l # loc) =>
                         output_dict'[f][t][l] = output_dict[f][t][l] ]_vars

\* the engine is at work on the buffer of the second theme and has stored a
\* row there, while the buckets of the first theme and the polygon bucket of
\* the second hold the rows of the earlier calls
C26_Witness ==
    /\ pc = "rows" /\ idx = 2 /\ loc = "in_buffer"
    /\ \E f \in DOMAIN output_dict :
          /\ output_dict[f][reftab_dict[2].theme_name]["in_buffer"] # <<>>
          /\ output_dict[f][reftab_dict[1].theme_name]["in_polygon"] # <<>>

-----------------------------------------------------------------------------
(* The value of a cell for every pair of buckets of the engine, on SpecFormat *)

\* the text of a row rendered on its own, after nothing else
RenderedAlone(e, row) ==
    RenderValue(row, Upper(e.method), e.geometry_type, Unbound)

\* C27: for the buckets the engine has produced, _results_to_string returns a
\* text that starts with 'In polygon:', and every row of a bucket with rows is
\* rendered with a text of its own: it has a text when it is rendered alone,
\* and that text is a line of the section of its bucket.
C27_CellAlwaysText ==
    \A e \in AllThemes : \A f \in DOMAIN output_dict :
        LET cell == CellNow(f, e)
        IN  /\ cell.kind = "str"
            /\ StartsWith(cell.s, T_InPolygon)
            /\ \A l \in SectionsOf(e.buffer_distance) :
                  LET bucket == output_dict[f][e.theme_name][l]
                      rows   == SectionRows(cell.s, l, e.buffer_distance)
                  IN  ~NotAny(bucket) =>
                         \A i \in 1..Len(bucket) :
                            /\ RenderedAlone(e, bucket[i]).bound
                            /\ \E k \in 1..Len(rows) : rows[k] = RenderedAlone(e, bucket[i]).s

-----------------------------------------------------------------------------
(* The order of the joined records, on SpecFormat *)

\* the sequences that hold the elements of s in another order, s included
Reorderings(s) ==
    { [i \in 1..Len(s) |-> s[p[i]]] :
        p \in { q \in [1..Len(s) -> 1..Len(s)] :
                   \A i, j \in 1..Len(s) : i # j => q[i] # q[j] } }

\* the cell of the theme of row for the feature f when the cursors yield the
\* records polys and buffs
CellOfRecords(row, polys, buffs) ==
    ResultsToString(ReplayRecords(polys, <<>>, row), ReplayRecords(buffs, <<>>, row),
                    row.method, row.buffer_distance, UpperShape(FcShapeType(row.fc_name)))

\* C28: the cell of a feature and a theme is the same text in whatever order
\* the cursors of the two locations yield the joined records they yielded.
C28_CellIndependentOfRecordOrder ==
    \A k \in 1..Len(reftable) : \A f \in DOMAIN output_dict :
        LET row   == reftable[k]
            polys == joined[row.fc_name]["in_polygon"][f].recs
            buffs == joined[row.fc_name]["in_buffer"][f].recs
        IN  (RequiresCheck(row) /\ reftab_dict # <<>>) =>
               \A p \in Reorderings(polys) : \A b \in Reorderings(buffs) :
                  CellOfRecords(row, p, b) = CellOfRecords(row, polys, buffs)


-----------------------------------------------------------------------------
(* Properties of the per-feature pipeline, on SpecPipeline *)

RECURSIVE LinesOf(_)
\* the finished lines of a text: the pieces that a "\n" ends
LinesOf(t) ==
    LET i == IndexOf(t, <<"\n">>)
    IN  IF i = 0 THEN <<>>
        ELSE <<SubSeq(t, 1, i - 1)>> \o LinesOf(SubSeq(t, i + 1, Len(t)))

\* the marker cell of a failed feature
T_ErrorCell == <<",", "E", "r", "r", "o", "r", " ", "o", "c", "c", "u", "r", "r", "e", "d">>

\* the features for which process_feature logged an error
FailedFeatures ==
    { perf_log[i].fc : i \in { j \in 1..Len(perf_log) : perf_log[j].step = "process_feature" } }

\* C22: whenever run() is between two features or past the last one, the
\* output holds exactly one finished line for each feature processed so far,
\* in the order of the list; the line starts with the name of its feature,
\* and it ends with the cell 'Error occurred' exactly when an error was
\* logged for that feature. The loop ends only after every feature of the
\* list has its line, so a failed feature does not stop the run.
C22_OneLinePerFeature ==
    pc \in {"feature", "features_done"} =>
        LET lines == LinesOf(output_file)
        IN  /\ idx - 1 <= Len(FeatureList)
            /\ pc = "features_done" => idx - 1 = Len(FeatureList)
            /\ Len(lines) = idx - 1
            /\ output_file # <<>> => output_file[Len(output_file)] = "\n"
            /\ \A i \in 1..Len(lines) :
                  /\ StartsWith(lines[i], StrNat(FeatureList[i]))
                  /\ EndsWith(lines[i], T_ErrorCell) <=> FeatureList[i] \in FailedFeatures

\* a run over two features is over; the first feature failed after a cell of
\* it was written, the second did not fail
C22_Witness ==
    /\ pc = "features_done"
    /\ Len(FeatureList) = 2
    /\ FailedFeatures = {FeatureList[1]}
    /\ Len(LinesOf(output_file)) = 2
    /\ Len(LinesOf(output_file)[1]) > 1 + Len(T_ErrorCell)

\* the text of a definition query is blank
Blank(query) == Strip(query) = <<>>

\* C29: whenever a check function is called for a theme, for the polygon or
\* for the buffer, the selection of the value layer is the selection of the
\* definition query of the theme, or no selection when the query is blank,
\* whatever was selected on the layer before.
C29_CheckSeesQuerySelection ==
    \A i \in 1..Len(checks) :
        checks[i].selection = IF Blank(checks[i].query) THEN NoSelection
                              ELSE Selected(QuerySelection(checks[i].query))

\* the second feature, a theme with a query after another theme on the same
\* layer: the buffer was checked on the selection of the query after the
\* check of the polygon, and it left the layer with nothing selected
C29_Witness ==
    /\ counter = 2
    /\ pc = "theme"
    /\ theme_pos = 3
    /\ reftable = <<RowCounted, RowListed>>
    /\ Len(checks) = 2
    /\ checks[2].loc = "buffer"
    /\ checks[2].selection = Selected({1})
    /\ selection["fcHeritage"] = Selected({})


-----------------------------------------------------------------------------
(* The truncation loop of get_values_areas of Hume_ValuesCheckingScript_V2008.py
   (335-353; the same loop is lines 308-326 of Hume_ValuesCheckingScript_V2004.py):
   trunc_attrs is the list attrs of one record after the cleaning of 325-333,
   one text for each reporting field *)

\* 337: "while total_len > 200"
MaxTotalLen == 200

\* 478: reporting_fields = [repfld1, repfld2, repfld3, repfld4]
MaxReportingFields == 4

\* cleaned texts of a record: the empty text, a short text that is an
\* ellipsis, a text of middle length and the longest text the cleaning of
\* 330-332 lets through, 200 characters and an ellipsis
CleanedAttrs == { <<>>, Ellipsis, Rep("x", 67), Rep("x", 200) \o Ellipsis }

\* the lists attrs of the records: 1 to 4 cleaned texts
AttrLists == UNION { [1..n -> CleanedAttrs] : n \in 1..MaxReportingFields }

RECURSIVE SumLen(_)
\* sum(len(attr) for attr in attrs)
SumLen(attrs) == IF attrs = <<>> THEN 0 ELSE Len(Head(attrs)) + SumLen(Tail(attrs))

\* 335 and 353: total_len
TotalLen(attrs) == SumLen(attrs) + 3 * (Len(attrs) - 1)

\* 339: max(range(len(attrs)), key=lambda i: len(attrs[i])), the first of
\* the positions of a longest text
LongestIdx(attrs) ==
    CHOOSE i \in 1..Len(attrs) :
        /\ \A j \in 1..Len(attrs) : Len(attrs[j]) <= Len(attrs[i])
        /\ \A j \in 1..(i - 1) : Len(attrs[j]) < Len(attrs[i])

\* the slice s[:n] of Python, n negative included
SliceTo(s, n) ==
    IF n >= 0 THEN SubSeq(s, 1, IF n < Len(s) THEN n ELSE Len(s))
    ELSE SubSeq(s, 1, IF Len(s) + n > 0 THEN Len(s) + n ELSE 0)

\* TrimLongest that leaves the text as it is
TrimLongestKeep(longest_attr) == longest_attr

\* 343-350: the ellipsis of the text is taken off if it has one, one
\* character is cut and the ellipsis is put on
TrimLongest(longest_attr) ==
    LET stripped   == IF EndsWith(longest_attr, Ellipsis) THEN SliceTo(longest_attr, -3)
                      ELSE longest_attr
        new_length == Len(stripped) - 1
    IN  SliceTo(stripped, new_length) \o Ellipsis

\* 337-353: one iteration of the while loop
TruncateStep ==
    /\ pc = "trunc"
    /\ TotalLen(trunc_attrs) > MaxTotalLen
    /\ trunc_attrs' = [trunc_attrs EXCEPT ![LongestIdx(trunc_attrs)] = TrimLongest(@)]
    /\ UNCHANGED <<v3only, reftable, works, pc, idx, perf_log, budget, counter, theme_pos,
                   output_file, selection, checks>>

\* 337 and 355: the test of the loop fails and the list becomes the key
TruncateExit ==
    /\ pc = "trunc"
    /\ TotalLen(trunc_attrs) <= MaxTotalLen
    /\ pc' = "trunc_done"
    /\ UNCHANGED <<v3only, reftable, works, idx, perf_log, budget, pipeline>>

InitTruncate ==
    /\ trunc_attrs \in AttrLists
    /\ pc = "trunc"
    /\ counter = 0
    /\ theme_pos = 0
    /\ output_file = <<>>
    /\ selection = [layer \in {"fcHeritage"} |-> NoSelection]
    /\ checks = <<>>
    /\ config = ValidConfig
    /\ reftable = <<RowListed>>
    /\ works = <<>>
    /\ idx = 1
    /\ loc = "none"
    /\ layer_name = UnboundLayer
    /\ values_cache = <<>>
    /\ buffer_cache = {}
    /\ reftab_dict = <<>>
    /\ output_dict = <<>>
    /\ output_ids = <<>>
    /\ progress = 1
    /\ csv = <<>>
    /\ csv_open = TRUE
    /\ perf_log = <<>>
    /\ raised = FALSE
    /\ calls = <<>>
    /\ joined = [fc \in FcNames |-> [l \in Locations |-> [f \in FeatureIds |-> NoRecords]]]
    /\ call_status = [fc \in FcNames |-> [l \in Locations |-> "none"]]
    /\ budget = [recs |-> 0, faults |-> 0]

NextTruncate ==
    \/ TruncateStep
    \/ TruncateExit

\* the loop is sequential code: as long as it can take a step, it takes one
SpecTruncate == InitTruncate /\ [][NextTruncate]_vars /\ WF_vars(NextTruncate)

-----------------------------------------------------------------------------
(* Properties of the truncation loop, on SpecTruncate *)

\* C30: for every list of at most 4 cleaned attribute texts the truncation
\* loop of get_values_areas comes to its end, and from then on the total
\* length of the list, the lengths of the texts and 3 for each separator,
\* is at most 200.
C30_TruncationTerminates ==
    <>[](pc = "trunc_done" /\ TotalLen(trunc_attrs) <= MaxTotalLen)

\* the loop has ended on a list of 4 texts it has shortened down to a total
\* of exactly 200, each of them cut and ended by an ellipsis
C30_Witness ==
    /\ pc = "trunc_done"
    /\ Len(trunc_attrs) = MaxReportingFields
    /\ TotalLen(trunc_attrs) = MaxTotalLen
    /\ \A i \in 1..Len(trunc_attrs) :
          EndsWith(trunc_attrs[i], Ellipsis) /\ Len(trunc_attrs[i]) > 40

====
